---- MODULE Spec2Model ----
(***************************************************************************)
(* A model of the plugin configuration loader (settings_ui/plugin_loader)  *)
(* and of the check/configure handlers (settings_ui/plugin_handlers) of    *)
(* the remember@thechief settings UI.                                      *)
(*                                                                         *)
(* Strings are sequences of chunks.  A chunk is one character, or a        *)
(* literal that the code only ever treats as a whole ("launchFlags.",      *)
(* "config.json", a command-line flag).  JSON values are tagged records    *)
(* [t, v]; a JSON object is a function from strings to JSON values.        *)
(***************************************************************************)
EXTENDS Integers, Sequences, FiniteSets, TLC

VARIABLES
    disk,       \* the two plugin roots on disk: [ext, user], each [status, entries]
    plugins,    \* PluginLoader._plugins: name -> PluginConfig
    loaded,     \* PluginLoader._loaded
    op,         \* the operation that was called last, with its argument
    ret,        \* what that operation returned
    target,     \* which file the handler descriptors of the setting at hand name
    filesys,    \* the files the handlers read and write: [json, text, firefox]
    handler,    \* the handler the factory returned last, or None
    called,     \* the factory method or handler method that was called last
    outcome,    \* how check() or configure() ended inside the last execute()
    result,     \* how the last call ended: a returned value, or an exception
    process,    \* what the operating system made of the command of the last execute()
    waited,     \* seconds the caller was blocked in the last execute()
    grid,       \* AppsSessionTab: the cards attached to self.grid
    tab,        \* how the last call of the settings UI ended
    preferences,         \* PreferencesTab.preferences
    extension_settings,  \* AppsSessionTab.extension_settings['launchFlags']
    config_files,        \* preferences.json and extension-settings.json on disk
    dialogs,    \* the message dialogs shown to the user
    printed,    \* the lines printed to standard output
    apps_to_launch,  \* ProgressWindow.apps_to_launch
    status_file,     \* progress-status.json on disk
    store,           \* ProgressWindow.store: the status shown in each row
    instance_rows,   \* ProgressWindow.instance_rows: instance id -> row
    show_setting,    \* ProgressWindow.show_setting
    timer,           \* whether the poll timer of the progress window is armed
    positions_file,  \* positions.json on disk
    data_manager,    \* DataManager.data
    windows_store,   \* WindowsTab.windows_store: the rows of the tree
    current_view,    \* WindowsTab.current_view
    selected,        \* the row selected in WindowsTab.windows_tree (0: none)
    switch,          \* the position of the switch of an application row
    pending,         \* the callbacks registered with GLib.timeout_add
    calls,           \* the functions AppConfigurator called, in order
    edit_dialog      \* the PluginEditDialog that is open, if one is

loaderVars == <<disk, plugins, loaded, op, ret>>
handlerVars == <<target, filesys, handler, called, outcome, result, process, waited>>
progressVars == <<apps_to_launch, status_file, store, instance_rows, show_setting, timer>>
windowsVars == <<positions_file, data_manager, windows_store, current_view, selected>>
appsVars == <<switch, pending, calls, edit_dialog>>
settingsVars == <<grid, tab, preferences, extension_settings, config_files, dialogs, printed>>
settingsVars_but_tab == <<grid, preferences, extension_settings, config_files, dialogs, printed>>
uiVars == <<settingsVars, progressVars, windowsVars, appsVars>>
vars == <<loaderVars, handlerVars, uiVars>>

-----------------------------------------------------------------------------
(* Bounds of the model *)

\* Entries in one plugin root's directory listing.
MaxDirs == 2

\* Entries in one plugin root while the descriptor files are being edited.
MaxEditedDirs == 1

-----------------------------------------------------------------------------
(* Python strings *)

LowerChars == {"a", "b", "f", "o", "r", "x", "y"}
UpperChars == {"A", "B", "F", "O", "R", "X", "Y"}

ToUpper(c) ==
    CASE c = "a" -> "A" [] c = "b" -> "B" [] c = "f" -> "F" [] c = "o" -> "O"
      [] c = "r" -> "R" [] c = "x" -> "X" [] c = "y" -> "Y" [] OTHER -> c

ToLower(c) ==
    CASE c = "A" -> "a" [] c = "B" -> "b" [] c = "F" -> "f" [] c = "O" -> "o"
      [] c = "R" -> "r" [] c = "X" -> "x" [] c = "Y" -> "y" [] OTHER -> c

IsCased(c) == c \in LowerChars \cup UpperChars

\* str.replace(old, new) for a one-chunk old: every occurrence is replaced.
RECURSIVE str_replace(_, _, _)
str_replace(s, old, new) ==
    IF s = <<>> THEN <<>>
    ELSE (IF Head(s) = old THEN new ELSE <<Head(s)>>) \o str_replace(Tail(s), old, new)

\* str.startswith(prefix) for a one-chunk prefix.
str_startswith(s, prefix) == Len(s) > 0 /\ Head(s) = prefix

\* str.title(): a cased character is upper-cased when the character before
\* it is not cased, and lower-cased when it is.
RECURSIVE title_from(_, _)
title_from(s, prev_cased) ==
    IF s = <<>> THEN <<>>
    ELSE LET c == Head(s)
         IN  <<IF ~IsCased(c) THEN c
               ELSE IF prev_cased THEN ToLower(c) ELSE ToUpper(c)>>
             \o title_from(Tail(s), IsCased(c))

str_title(s) == title_from(s, FALSE)

\* str.lower()
str_lower(s) == [i \in 1..Len(s) |-> ToLower(s[i])]

\* sep.join(parts)
RECURSIVE str_join(_, _)
str_join(sep, parts) ==
    IF parts = <<>> THEN <<>>
    ELSE IF Len(parts) = 1 THEN Head(parts)
    ELSE Head(parts) \o <<sep>> \o str_join(sep, Tail(parts))

-----------------------------------------------------------------------------
(* JSON values as json.load returns them *)

JStr(s)  == [t |-> "str",  v |-> s]
JNum(n)  == [t |-> "num",  v |-> n]
JBool(b) == [t |-> "bool", v |-> b]
JList(q) == [t |-> "list", v |-> q]
JMap(f)  == [t |-> "map",  v |-> f]
JNull    == [t |-> "null", v |-> 0]

EmptyMap == JMap(<<>>)
EmptyList == JList(<<>>)

\* A literal one-chunk string, and a one-key object.
K(lit) == <<lit>>
Field(lit, val) == K(lit) :> val

IsDict(x) == x.t = "map"

\* Python truthiness of a JSON value ("if not x").
Falsy(x) ==
    \/ x.t = "null"
    \/ x.t = "bool" /\ x.v = FALSE
    \/ x.t = "num" /\ x.v = 0
    \/ x.t \in {"str", "list", "map"} /\ x.v = <<>>

\* dict.get(key, default) on the function of a JSON object.
dict_get(d, key, default) == IF key \in DOMAIN d THEN d[key] ELSE default

-----------------------------------------------------------------------------
(* plugin_loader.py: parsing one descriptor *)

\* What a call yields: a value, or an exception that leaves the function.
Returned(x) == [o |-> "return", val |-> x]
Raised      == [o |-> "raise",  val |-> JNull]
None        == JNull

LaunchFlagsPrefix == "launchFlags."

\* The keys a conditionalFlags object can hold, in the order in which the
\* descriptor files list them (a Python dict iterates in file order).
FlagKeyOrder ==
    << <<LaunchFlagsPrefix, "f", "o", "o", "B", "a", "r">>,
       <<LaunchFlagsPrefix, "x">>,
       <<LaunchFlagsPrefix, LaunchFlagsPrefix, "x">>,
       <<"x">> >>

\* class PluginSetting, built by _parse_setting from a settings entry.
_parse_setting(key, data) ==
    [ key           |-> key,
      type          |-> dict_get(data, K("type"), JStr(K("boolean"))),
      label         |-> dict_get(data, K("label"), JStr(key)),
      description   |-> dict_get(data, K("description"), JStr(<<>>)),
      check         |-> dict_get(data, K("check"), None),
      configure     |-> dict_get(data, K("configure"), None),
      unconfigure   |-> dict_get(data, K("unconfigure"), None),
      open_settings |-> dict_get(data, K("openSettings"), None),
      options       |-> dict_get(data, K("options"), None),
      default       |-> dict_get(data, K("default"), None) ]

\* re.sub(r'([a-z])([A-Z])', r'\1 \2', flag_key): matches do not overlap.
RECURSIVE camel_split(_)
camel_split(s) ==
    IF Len(s) < 2 THEN s
    ELSE IF s[1] \in LowerChars /\ s[2] \in UpperChars
         THEN <<s[1], " ", s[2]>> \o camel_split(SubSeq(s, 3, Len(s)))
         ELSE <<s[1]>> \o camel_split(Tail(s))

_generate_flag_label(flag_key) == str_title(camel_split(flag_key))

\* ' '.join(flags) accepts a list of strings (and a string, character by
\* character); every other JSON value raises TypeError.
Joinable(flags) ==
    \/ flags.t = "str"
    \/ flags.t = "list" /\ \A i \in 1..Len(flags.v) : flags.v[i].t = "str"

joined_flags(flags) ==
    IF flags.t = "str" THEN [i \in 1..Len(flags.v) |-> <<flags.v[i]>>]
    ELSE [i \in 1..Len(flags.v) |-> flags.v[i].v]

\* The setting key the loader derives from a conditionalFlags key.
flag_setting_key(flag_key) == str_replace(flag_key, LaunchFlagsPrefix, <<>>)

launch_flag_setting(setting_key, flags) ==
    [ key           |-> setting_key,
      type          |-> JStr(K("launch_flag")),
      label         |-> JStr(_generate_flag_label(setting_key)),
      description   |-> JStr(K("Use flags: ") \o str_join(" ", joined_flags(flags))),
      check         |-> None,
      configure     |-> None,
      unconfigure   |-> None,
      open_settings |-> None,
      options       |-> None,
      default       |-> JBool(TRUE) ]

\* The loop over conditional_flags.items(), from the i-th key on.  Yields
\* the settings, or Raised when a flags value cannot be joined.
RECURSIVE generate_flag_settings(_, _, _)
generate_flag_settings(settings, conditional_flags, i) ==
    IF i > Len(FlagKeyOrder) THEN Returned(settings)
    ELSE LET flag_key == FlagKeyOrder[i]
             setting_key == flag_setting_key(flag_key)
         IN  IF flag_key \notin DOMAIN conditional_flags
                \/ ~str_startswith(flag_key, LaunchFlagsPrefix)
                \/ setting_key \in DOMAIN settings
             THEN generate_flag_settings(settings, conditional_flags, i + 1)
             ELSE IF ~Joinable(conditional_flags[flag_key]) THEN Raised
             ELSE generate_flag_settings(
                      (setting_key :> launch_flag_setting(setting_key, conditional_flags[flag_key]))
                          @@ settings,
                      conditional_flags, i + 1)

\* The name itself as display name.
name_as_display_name(name) == name

\* name.replace('-', ' ').title()
default_display_name(name) == str_title(str_replace(name, "-", <<" ">>))

\* class PluginConfig
PluginConfig(data, name, display_name, launch, conditional_flags, features, settings, plugin_path) ==
    [ name                      |-> name,
      display_name              |-> display_name,
      description               |-> dict_get(data, K("description"), JStr(<<>>)),
      version                   |-> dict_get(data, K("version"), JStr(K("1.0.0"))),
      wm_class                  |-> dict_get(data, K("wmClass"), EmptyList),
      plugin_type               |-> dict_get(data, K("type"), JStr(<<>>)),
      executables               |-> dict_get(launch, K("executables"), EmptyList),
      flags                     |-> dict_get(launch, K("flags"), EmptyList),
      conditional_flags         |-> conditional_flags,
      is_single_instance        |-> dict_get(features, K("isSingleInstance"), JBool(FALSE)),
      auto_restore              |-> dict_get(features, K("autoRestore"), JBool(FALSE)),
      needs_config_manipulation |-> dict_get(features, K("needsConfigManipulation"), JBool(FALSE)),
      needs_title_parsing       |-> dict_get(features, K("needsTitleParsing"), JBool(FALSE)),
      settings                  |-> settings,
      plugin_path               |-> plugin_path ]

\* The part of _load_plugin_config after json.load has returned `data`.
\* Calling .get or .items on a value that is not a dict, and .replace on a
\* name that is not a str, raise AttributeError.
build_plugin_config(data, plugin_path) ==
    IF ~IsDict(data) THEN Raised
    ELSE LET name == dict_get(data.v, K("name"), JStr(<<>>))
         IN
         IF Falsy(name) THEN Returned(None)
         ELSE IF name.t # "str" THEN Raised
         ELSE
         LET display_name  == dict_get(data.v, K("displayName"), JStr(default_display_name(name.v)))
             launch        == dict_get(data.v, K("launch"), EmptyMap)
             features      == dict_get(data.v, K("features"), EmptyMap)
             settings_data == dict_get(data.v, K("settings"), EmptyMap)
         IN
         IF ~IsDict(launch) THEN Raised
         ELSE
         LET conditional_flags == dict_get(launch.v, K("conditionalFlags"), EmptyMap)
         IN
         IF ~IsDict(settings_data) THEN Raised
         ELSE IF \E key \in DOMAIN settings_data.v : ~IsDict(settings_data.v[key]) THEN Raised
         ELSE IF ~IsDict(conditional_flags) THEN Raised
         ELSE
         LET parsed == [key \in DOMAIN settings_data.v |-> _parse_setting(key, settings_data.v[key].v)]
             settings == generate_flag_settings(parsed, conditional_flags.v, 1)
         IN
         IF settings.o = "raise" THEN Raised
         ELSE IF ~IsDict(features) THEN Raised
         ELSE Returned(PluginConfig(data.v, name.v, display_name, launch.v,
                                    conditional_flags, features.v, settings.val, plugin_path))

\* A config.json on disk: [k, v].  k says what open() and json.load make of
\* it; v is the parsed document when k = "json".
File(k, v) == [k |-> k, v |-> v]
NoFile        == File("absent", JNull)       \* no such directory, or no config.json in it
UnreadableFile == File("ioerror", JNull)      \* open() raises IOError
UndecodableFile == File("undecodable", JNull) \* bytes that are not text: read() raises UnicodeDecodeError
MalformedFile == File("badjson", JNull)      \* json.load raises JSONDecodeError
JsonFile(v)   == File("json", v)

\* A load without the test of the name: a descriptor without one gives a
\* record named ''.
load_unnamed_too(config_file, plugin_path) ==
    IF config_file.k \in {"ioerror", "badjson"} THEN Returned(None)
    ELSE IF config_file.k = "undecodable" THEN Raised
    ELSE IF build_plugin_config(config_file.v, plugin_path) = Returned(None)
         THEN Returned(PluginConfig(config_file.v.v, <<>>, JStr(<<>>), EmptyMap.v, EmptyMap,
                                    EmptyMap.v, EmptyMap.v, plugin_path))
    ELSE build_plugin_config(config_file.v, plugin_path)

\* _load_plugin_config: JSONDecodeError and IOError are caught and give
\* None; UnicodeDecodeError is neither and leaves the function.
_load_plugin_config(config_file, plugin_path) ==
    IF config_file.k \in {"ioerror", "badjson"} THEN Returned(None)
    ELSE IF config_file.k = "undecodable" THEN Raised
    ELSE build_plugin_config(config_file.v, plugin_path)

-----------------------------------------------------------------------------
(* Python dicts that the code iterates: a sequence of [key, val] pairs with *)
(* distinct keys, in insertion order.                                       *)

dict_keys(d) == {d[i].key : i \in 1..Len(d)}
dict_has(d, key) == key \in dict_keys(d)
dict_at(d, key) == d[CHOOSE i \in 1..Len(d) : d[i].key = key].val

\* d[key] = val: an existing key keeps its place, a new key goes last.
dict_set(d, key, val) ==
    IF dict_has(d, key)
    THEN [i \in 1..Len(d) |-> IF d[i].key = key THEN [key |-> key, val |-> val] ELSE d[i]]
    ELSE Append(d, [key |-> key, val |-> val])

\* {k: v for k, v in d.items() if keep(v)}
dict_filter(d, keep(_)) == SelectSeq(d, LAMBDA e : keep(e.val))

dict_values(d) == [i \in 1..Len(d) |-> d[i].val]

-----------------------------------------------------------------------------
(* plugin_loader.py: scanning the plugin roots *)

EXTENSION_PLUGIN_PATH == "~/.local/share/cinnamon/extensions/remember@thechief/plugins"
USER_PLUGIN_PATH == "~/.config/remember@thechief/plugins"

\* A plugin root on disk.  status: "dir", "missing", "file" (the path is
\* there but is no directory) or "unlistable" (a directory os.listdir
\* cannot read).
\* entries[i] is the config.json of the i-th item os.listdir returns.
Root(status, entries) == [status |-> status, entries |-> entries]

root_of(d, base_dir) == IF base_dir = EXTENSION_PLUGIN_PATH THEN d.ext ELSE d.user

\* A loader that scans the user root first (the system root would win).
get_plugin_directories_user_first(d) ==
    SelectSeq(<<USER_PLUGIN_PATH, EXTENSION_PLUGIN_PATH>>,
              LAMBDA base_dir : root_of(d, base_dir).status \in {"dir", "unlistable"})

\* os.path.isdir holds of a directory whether or not it can be listed.
get_plugin_directories(d) ==
    SelectSeq(<<EXTENSION_PLUGIN_PATH, USER_PLUGIN_PATH>>,
              LAMBDA base_dir : root_of(d, base_dir).status \in {"dir", "unlistable"})

\* os.path.join(base_dir, item)
plugin_path_of(base_dir, i) == <<base_dir, i>>

RECURSIVE scan_items(_, _, _, _)
RECURSIVE item_error(_, _, _, _)

\* A scan without the inner try: the exception ends the loop and is caught
\* by the outer except.
item_error_ends_scan(cache, base_dir, entries, i) == cache

\* except Exception as e: print(...) inside the loop: the loop goes on with
\* the next item.
item_error(cache, base_dir, entries, i) == scan_items(cache, base_dir, entries, i + 1)

\* The loop of _scan_plugin_directory from the i-th listed item on.
scan_items(cache, base_dir, entries, i) ==
    IF i > Len(entries) THEN cache
    ELSE IF entries[i].k = "absent" THEN scan_items(cache, base_dir, entries, i + 1)
    ELSE LET config == _load_plugin_config(entries[i], plugin_path_of(base_dir, i))
         IN  IF config.o = "raise" THEN item_error(cache, base_dir, entries, i)
             ELSE IF config.val = None THEN scan_items(cache, base_dir, entries, i + 1)
             ELSE scan_items(dict_set(cache, config.val.name, config.val),
                             base_dir, entries, i + 1)

\* A scan in which a root that cannot be listed empties the cache.
scan_unlistable_clears(cache, base_dir, root) ==
    IF root.status = "unlistable" THEN <<>>
    ELSE scan_items(cache, base_dir, root.entries, 1)

\* os.listdir raising is caught by the outer except: the root adds nothing.
_scan_plugin_directory(cache, base_dir, root) ==
    IF root.status = "unlistable" THEN cache
    ELSE scan_items(cache, base_dir, root.entries, 1)

RECURSIVE scan_directories(_, _, _)
scan_directories(cache, dirs, d) ==
    IF dirs = <<>> THEN cache
    ELSE scan_directories(_scan_plugin_directory(cache, Head(dirs), root_of(d, Head(dirs))),
                          Tail(dirs), d)

\* The loader object: [plugins, loaded].
Loader(cache, is_loaded) == [plugins |-> cache, loaded |-> is_loaded]

\* A load_all that does not look at _loaded.
load_all_always_scans(self, d) ==
    Loader(scan_directories(<<>>, get_plugin_directories(d), d), TRUE)

load_all(self, d) ==
    IF self.loaded THEN self
    ELSE Loader(scan_directories(<<>>, get_plugin_directories(d), d), TRUE)

reload(self, d) == load_all(Loader(<<>>, FALSE), d)

-----------------------------------------------------------------------------
(* plugin_loader.py: queries.  Each calls load_all() first. *)

get_all_plugins(self) == self.plugins

get_plugin(self, name) ==
    IF dict_has(self.plugins, name) THEN dict_at(self.plugins, name) ELSE None

has_settings(config) == config.settings # <<>> \/ ~Falsy(config.conditional_flags)

get_plugins_with_settings(self) == dict_filter(self.plugins, has_settings)

get_plugins_by_type(self, plugin_type) ==
    dict_filter(self.plugins, LAMBDA config : config.plugin_type = JStr(plugin_type))

\* Code points order the characters of a str.
CharOrder ==
    <<" ", "-", ".", "A", "B", "F", "O", "R", "X", "Y", "a", "b", "f", "o", "r", "x", "y">>
Ord(c) == CHOOSE i \in 1..Len(CharOrder) : CharOrder[i] = c

\* a < b on str
RECURSIVE str_lt(_, _)
str_lt(a, b) ==
    IF b = <<>> THEN FALSE
    ELSE IF a = <<>> THEN TRUE
    ELSE IF Head(a) = Head(b) THEN str_lt(Tail(a), Tail(b))
    ELSE Ord(Head(a)) < Ord(Head(b))

\* key=lambda p: p.display_name.lower()
sort_key(p) == str_lower(p.display_name.v)

\* sorted() is stable: an element goes after the elements whose key is not greater.
RECURSIVE sorted_insert(_, _)
sorted_insert(q, p) ==
    IF q = <<>> THEN <<p>>
    ELSE IF str_lt(sort_key(p), sort_key(Head(q))) THEN <<p>> \o q
    ELSE <<Head(q)>> \o sorted_insert(Tail(q), p)

RECURSIVE sorted(_)
sorted(q) ==
    IF q = <<>> THEN <<>>
    ELSE sorted_insert(sorted(SubSeq(q, 1, Len(q) - 1)), q[Len(q)])

\* .lower() on a display_name that is not a str raises AttributeError.
get_sorted_plugins(self) ==
    IF \E i \in 1..Len(self.plugins) : self.plugins[i].val.display_name.t # "str"
    THEN Raised
    ELSE Returned(sorted(dict_values(self.plugins)))

-----------------------------------------------------------------------------
(* plugin_handlers.py: what the handlers see of the file system *)

\* An exception leaves the function; val is str(e).
Raise(exc) == [o |-> "raise", val |-> JStr(K(exc))]

\* No call has ended yet.
NoOutcome == [o |-> "none", val |-> JNull]

\* A file as a handler meets it: absent, a directory ("dir": open() raises
\* IsADirectoryError, an IOError), "ioerror" (open() raises PermissionError),
\* "undecodable" (read() raises UnicodeDecodeError, which is no IOError),
\* "badjson" (text that json.load rejects), "json" with the document
\* json.load returns, or "text" with the str read() returns.
DirFile     == File("dir", JNull)
TextFile(s) == File("text", JStr(s))

\* os.path.exists
path_exists(file) == file.k # "absent"

HOME == "/home/user"

\* os.path.expanduser: a leading "~" becomes the home directory.
expanduser(path) ==
    IF path # <<>> /\ Head(path) = "~" THEN <<HOME>> \o Tail(path) ELSE path

JSON_PATH == <<"~", "/.config/app/settings.json">>
TEXT_PATH == <<"~", "/.config/app/apprc">>

\* A profile directory entry of ~/.mozilla/firefox: whether its name
\* contains '.default', whether it is a directory or a file, and its
\* user.js and prefs.js.
Profile(default, k, user_js, prefs_js) ==
    [default |-> default, k |-> k, user_js |-> user_js, prefs_js |-> prefs_js]

\* ~/.mozilla/firefox: "absent", a "file", or a "dir" with its os.listdir.
ProfileDir(k, entries) == [k |-> k, entries |-> entries]
NoProfileDir == ProfileDir("absent", <<>>)

\* os.path.join(profile_dir, item, filename) of an item that is a file
\* names nothing.
user_js_of(item)  == IF item.k = "dir" THEN item.user_js ELSE NoFile
prefs_js_of(item) == IF item.k = "dir" THEN item.prefs_js ELSE NoFile

Files(json, text, firefox) == [json |-> json, text |-> text, firefox |-> firefox]
NoFiles == Files(NoFile, NoFile, NoProfileDir)

\* The file a path names.
file_at(fs, path) ==
    IF path = expanduser(JSON_PATH) THEN fs.json
    ELSE IF path = expanduser(TEXT_PATH) THEN fs.text
    ELSE NoFile

\* The file system after the file a path names has been written.
write_at(fs, path, file) ==
    IF path = expanduser(JSON_PATH) THEN [fs EXCEPT !.json = file]
    ELSE IF path = expanduser(TEXT_PATH) THEN [fs EXCEPT !.text = file]
    ELSE fs

\* What configure() does: how it ends and the file system it leaves.
Effect(out, fs) == [out |-> out, files |-> fs]

\* pattern in content
str_contains(content, pattern) ==
    \E i \in 0..(Len(content) - Len(pattern)) :
        SubSeq(content, i + 1, i + Len(pattern)) = pattern

\* s.split(sep) for a one-chunk sep
RECURSIVE split_from(_, _, _)
split_from(s, sep, piece) ==
    IF s = <<>> THEN <<piece>>
    ELSE IF Head(s) = sep THEN <<piece>> \o split_from(Tail(s), sep, <<>>)
    ELSE split_from(Tail(s), sep, Append(piece, Head(s)))

str_split(s, sep) == split_from(s, sep, <<>>)

\* a == b on values json.load returns: True == 1 and False == 0.
py_eq(a, b) ==
    IF a.t = "bool" /\ b.t = "num" THEN b.v = (IF a.v THEN 1 ELSE 0)
    ELSE IF a.t = "num" /\ b.t = "bool" THEN a.v = (IF b.v THEN 1 ELSE 0)
    ELSE a = b

\* The timeouts the command handlers give subprocess.run, in seconds.
CHECK_TIMEOUT == 10
CONFIGURE_TIMEOUT == 30

\* What the operating system makes of a command: whether the process can be
\* started ("ok", or "oserror" for OSError), whether it ever ends, after how
\* many seconds, and with which exit status.
Process(start, returns, seconds, status) ==
    [start |-> start, returns |-> returns, seconds |-> seconds, status |-> status]

\* No command is run.
NoProcess == Process("none", FALSE, 0, 0)

ProcessOutcomes ==
    {Process("oserror", FALSE, 0, 0), Process("ok", FALSE, 0, 0)}
    \cup {Process("ok", TRUE, seconds, status) :
             seconds \in {0, CHECK_TIMEOUT, CHECK_TIMEOUT + 1,
                          CONFIGURE_TIMEOUT, CONFIGURE_TIMEOUT + 1},
             status \in {0, 1}}

\* A run that waits for the command however long it takes: after the
\* timeout the caller is still waiting.
subprocess_run_unbounded(timeout, env) ==
    IF env.start = "oserror" THEN [exc |-> "OSError", returncode |-> 0, waited |-> 0]
    ELSE IF ~env.returns THEN [exc |-> "", returncode |-> 0, waited |-> timeout + 1]
    ELSE [exc |-> "", returncode |-> env.status, waited |-> env.seconds]

\* subprocess.run(cmd, capture_output=True, timeout=timeout): the exception
\* it raises ("" for none), the exit status, and the seconds it took.  At
\* the timeout the process is killed and TimeoutExpired is raised.
subprocess_run(timeout, env) ==
    IF env.start = "oserror" THEN [exc |-> "OSError", returncode |-> 0, waited |-> 0]
    ELSE IF ~env.returns \/ env.seconds > timeout
         THEN [exc |-> "TimeoutExpired", returncode |-> 0, waited |-> timeout]
    ELSE [exc |-> "", returncode |-> env.status, waited |-> env.seconds]

\* A command subprocess can start: a str, or a non-empty list of str.
\* An empty list raises IndexError, everything else TypeError.
cmd_error(cmd) ==
    IF cmd.t = "str" THEN "" 
    ELSE IF cmd.t # "list" THEN "TypeError"
    ELSE IF cmd.v = <<>> THEN "IndexError"
    ELSE IF \E i \in 1..Len(cmd.v) : cmd.v[i].t # "str" THEN "TypeError"
    ELSE ""

-----------------------------------------------------------------------------
(* plugin_handlers.py: the handler classes.  A handler is [cls, args]. *)

Handler(cls, args) == [cls |-> cls, args |-> args]

\* CheckHandler.execute without its try: the exception goes to the caller.
execute_without_try(checked) ==
    IF checked.o = "raise" THEN checked ELSE Returned(<<checked.val, None>>)

\* CheckHandler.execute: return self.check(), None / except Exception
CheckHandler_execute(checked) ==
    IF checked.o = "raise" THEN Returned(<<FALSE, checked.val>>)
    ELSE Returned(<<checked.val, None>>)

\* ConfigureHandler.execute: return self.configure(), None / except Exception
ConfigureHandler_execute(configured) ==
    IF configured.o = "raise" THEN Returned(<<FALSE, configured.val>>)
    ELSE Returned(<<configured.val, None>>)

\* os.path.expanduser(path) raises TypeError when path is not a str.
JsonKeyCheckHandler__init__(path, key, value) ==
    IF path.t # "str" THEN Raise("TypeError")
    ELSE Returned(Handler("JsonKeyCheckHandler",
                          [path |-> expanduser(path.v), key |-> key, value |-> value]))

\* The loop over the key's segments: [found, val].
RECURSIVE json_lookup(_, _)
json_lookup(current, keys) ==
    IF keys = <<>> THEN [found |-> TRUE, val |-> current]
    ELSE IF IsDict(current) /\ Head(keys) \in DOMAIN current.v
         THEN json_lookup(current.v[Head(keys)], Tail(keys))
         ELSE [found |-> FALSE, val |-> None]

JsonKeyCheckHandler_check(self, fs) ==
    LET file == file_at(fs, self.path)
    IN  IF ~path_exists(file) THEN Returned(FALSE)
        ELSE IF file.k \in {"dir", "ioerror", "badjson"} THEN Returned(FALSE)
        ELSE IF file.k = "undecodable" THEN Raise("UnicodeDecodeError")
        ELSE IF self.key.t # "str" THEN Raise("AttributeError")
        ELSE LET leaf == json_lookup(file.v, str_split(self.key.v, "."))
             IN  IF ~leaf.found THEN Returned(FALSE)
                 ELSE Returned(py_eq(leaf.val, self.value))

FileContainsCheckHandler__init__(path, pattern) ==
    IF path.t # "str" THEN Raise("TypeError")
    ELSE Returned(Handler("FileContainsCheckHandler",
                          [path |-> expanduser(path.v), pattern |-> pattern]))

FileContainsCheckHandler_check(self, fs) ==
    LET file == file_at(fs, self.path)
    IN  IF ~path_exists(file) THEN Returned(FALSE)
        ELSE IF file.k \in {"dir", "ioerror"} THEN Returned(FALSE)
        ELSE IF file.k = "undecodable" THEN Raise("UnicodeDecodeError")
        ELSE IF self.pattern.t # "str" THEN Raise("TypeError")
        ELSE Returned(str_contains(file.v.v, self.pattern.v))

FileExistsCheckHandler__init__(path) ==
    IF path.t # "str" THEN Raise("TypeError")
    ELSE Returned(Handler("FileExistsCheckHandler", [path |-> expanduser(path.v)]))

FileExistsCheckHandler_check(self, fs) == Returned(path_exists(file_at(fs, self.path)))

CommandCheckHandler__init__(cmd) == Returned(Handler("CommandCheckHandler", [cmd |-> cmd]))

\* subprocess.run(self.cmd, timeout=10): TimeoutExpired and OSError give False.
CommandCheckHandler_check(self, env) ==
    IF cmd_error(self.cmd) # "" THEN Raise(cmd_error(self.cmd))
    ELSE IF subprocess_run(CHECK_TIMEOUT, env).exc \in {"TimeoutExpired", "OSError"}
         THEN Returned(FALSE)
    ELSE Returned(subprocess_run(CHECK_TIMEOUT, env).returncode = 0)

AlwaysTrueCheckHandler__init__ == Returned(Handler("AlwaysTrueCheckHandler", [none |-> None]))

AlwaysTrueCheckHandler_check(self) == Returned(TRUE)

FirefoxProfileCheckHandler__init__(pattern) ==
    Returned(Handler("FirefoxProfileCheckHandler", [pattern |-> pattern]))

\* Opening and reading one file of a profile for the pattern: "skip" (no
\* such file, or no match), "found", "ioerror" or the exception's name.
probe(file, pattern) ==
    IF ~path_exists(file) THEN "skip"
    ELSE IF file.k \in {"dir", "ioerror"} THEN "ioerror"
    ELSE IF file.k = "undecodable" THEN "UnicodeDecodeError"
    ELSE IF pattern.t # "str" THEN "TypeError"
    ELSE IF str_contains(file.v.v, pattern.v) THEN "found"
    ELSE "skip"

\* The loop over os.listdir(profile_dir) from the i-th item on.  An IOError
\* is caught outside the loop: the scan ends and check() returns False.
RECURSIVE profile_scan(_, _, _)
profile_scan(entries, i, pattern) ==
    IF i > Len(entries) THEN Returned(FALSE)
    ELSE IF ~entries[i].default THEN profile_scan(entries, i + 1, pattern)
    ELSE LET user_js == probe(user_js_of(entries[i]), pattern)
             prefs_js == probe(prefs_js_of(entries[i]), pattern)
         IN  IF user_js = "found" THEN Returned(TRUE)
             ELSE IF user_js = "ioerror" THEN Returned(FALSE)
             ELSE IF user_js # "skip" THEN Raise(user_js)
             ELSE IF prefs_js = "found" THEN Returned(TRUE)
             ELSE IF prefs_js = "ioerror" THEN Returned(FALSE)
             ELSE IF prefs_js # "skip" THEN Raise(prefs_js)
             ELSE profile_scan(entries, i + 1, pattern)

\* os.listdir of a profile_dir that is a file raises NotADirectoryError,
\* an IOError.
FirefoxProfileCheckHandler_check(self, fs) ==
    IF fs.firefox.k = "absent" THEN Returned(FALSE)
    ELSE IF fs.firefox.k = "file" THEN Returned(FALSE)
    ELSE profile_scan(fs.firefox.entries, 1, self.pattern)

JsonSetConfigureHandler__init__(path, key, value) ==
    IF path.t # "str" THEN Raise("TypeError")
    ELSE Returned(Handler("JsonSetConfigureHandler",
                          [path |-> expanduser(path.v), key |-> key, value |-> value]))

\* The navigate/create loop and the final assignment, from `current` on:
\* the updated value.  `k not in current`, `current[k] = {}` and
\* `current[k] = value` raise TypeError on every value that is not a dict
\* (on a list or a str the test passes and the subscript raises).
RECURSIVE set_path(_, _, _)
set_path(current, keys, value) ==
    IF ~IsDict(current) THEN Raise("TypeError")
    ELSE IF Len(keys) = 1 THEN Returned(JMap((Head(keys) :> value) @@ current.v))
    ELSE LET child == IF Head(keys) \in DOMAIN current.v
                      THEN current.v[Head(keys)] ELSE EmptyMap
             below == set_path(child, Tail(keys), value)
         IN  IF below.o = "raise" THEN below
             ELSE Returned(JMap((Head(keys) :> below.val) @@ current.v))

\* Load existing data or start fresh: JSONDecodeError and IOError are
\* caught, UnicodeDecodeError is not.
load_or_fresh(file) ==
    IF file.k = "undecodable" THEN Raise("UnicodeDecodeError")
    ELSE IF file.k = "json" THEN Returned(file.v)
    ELSE Returned(EmptyMap)

\* os.makedirs(os.path.dirname('')) raises FileNotFoundError.  json.dump
\* writes text that json.load reads back as the same document.
JsonSetConfigureHandler_configure(self, fs) ==
    LET file == file_at(fs, self.path)
        data == load_or_fresh(file)
    IN  IF self.path = <<>> THEN Effect(Raise("FileNotFoundError"), fs)
        ELSE IF data.o = "raise" THEN Effect(data, fs)
        ELSE IF self.key.t # "str" THEN Effect(Raise("AttributeError"), fs)
        ELSE LET written == set_path(data.val, str_split(self.key.v, "."), self.value)
             IN  IF written.o = "raise" THEN Effect(written, fs)
                 ELSE IF file.k = "dir" THEN Effect(Raise("IsADirectoryError"), fs)
                 ELSE IF file.k = "ioerror" THEN Effect(Raise("PermissionError"), fs)
                 ELSE Effect(Returned(TRUE), write_at(fs, self.path, JsonFile(written.val)))

FileAppendConfigureHandler__init__(path, content, check_pattern) ==
    IF path.t # "str" THEN Raise("TypeError")
    ELSE Returned(Handler("FileAppendConfigureHandler",
                          [path |-> expanduser(path.v), content |-> content,
                           check_pattern |-> check_pattern]))

\* A configure() that never looks for the check pattern.
never_configured(check_pattern, file) == "no"

\* if self.check_pattern: if os.path.exists: if self.check_pattern in f.read():
\* "yes", "no", or the exception the read raises.
already_configured(check_pattern, file) ==
    IF Falsy(check_pattern) \/ ~path_exists(file) THEN "no"
    ELSE IF file.k = "dir" THEN "IsADirectoryError"
    ELSE IF file.k = "ioerror" THEN "PermissionError"
    ELSE IF file.k = "undecodable" THEN "UnicodeDecodeError"
    ELSE IF check_pattern.t # "str" THEN "TypeError"
    ELSE IF str_contains(file.v.v, check_pattern.v) THEN "yes"
    ELSE "no"

\* open(path, 'w') in place of open(path, 'a').
file_overwritten(file, content) == TextFile(content)

\* open(path, 'a'); f.write(content): the file after the write.  Bytes that
\* are not text stay what they are with the content behind them.
file_appended(file, content) ==
    IF file.k = "absent" THEN TextFile(content)
    ELSE IF file.k = "undecodable" THEN file
    ELSE TextFile(file.v.v \o content)

FileAppendConfigureHandler_configure(self, fs) ==
    LET file == file_at(fs, self.path)
        present == already_configured(self.check_pattern, file)
    IN  IF self.path = <<>> THEN Effect(Raise("FileNotFoundError"), fs)
        ELSE IF present = "yes" THEN Effect(Returned(TRUE), fs)
        ELSE IF present # "no" THEN Effect(Raise(present), fs)
        ELSE IF file.k = "dir" THEN Effect(Raise("IsADirectoryError"), fs)
        ELSE IF file.k = "ioerror" THEN Effect(Raise("PermissionError"), fs)
        ELSE IF self.content.t # "str" THEN Effect(Raise("TypeError"), fs)
        ELSE Effect(Returned(TRUE),
                    write_at(fs, self.path, file_appended(file, self.content.v)))

CommandConfigureHandler__init__(cmd) ==
    Returned(Handler("CommandConfigureHandler", [cmd |-> cmd]))

\* subprocess.run(self.cmd, timeout=30)
CommandConfigureHandler_configure(self, fs, env) ==
    IF cmd_error(self.cmd) # "" THEN Effect(Raise(cmd_error(self.cmd)), fs)
    ELSE IF subprocess_run(CONFIGURE_TIMEOUT, env).exc \in {"TimeoutExpired", "OSError"}
         THEN Effect(Returned(FALSE), fs)
    ELSE Effect(Returned(subprocess_run(CONFIGURE_TIMEOUT, env).returncode = 0), fs)

ManualConfigureHandler__init__(message, parent_window) ==
    Returned(Handler("ManualConfigureHandler",
                     [message |-> message, parent |-> parent_window]))

\* The dialog is shown and closed.
ManualConfigureHandler_configure(self, fs) == Effect(Returned(TRUE), fs)

FirefoxConfigureHandler__init__(pref_line, check_pattern) ==
    Returned(Handler("FirefoxConfigureHandler",
                     [pref_line |-> pref_line, check_pattern |-> check_pattern]))

ADDED_BY == "\n// Added by Window Position Remember\n"

\* Only the comment line is written.
pref_text_without_line(pref_line) == <<ADDED_BY>>

\* The two writes to user.js.
pref_text(pref_line) == <<ADDED_BY>> \o pref_line \o <<"\n">>

\* The body of the loop for the first item whose name contains '.default'.
configure_profile(self, fs, i) ==
    LET item == fs.firefox.entries[i]
        user_js == user_js_of(item)
        seen == probe(user_js, self.check_pattern)
    IN  IF seen = "found" THEN Effect(Returned(TRUE), fs)
        ELSE IF seen = "ioerror"
             THEN Effect(Raise(IF user_js.k = "dir" THEN "IsADirectoryError"
                                                    ELSE "PermissionError"), fs)
        ELSE IF seen # "skip" THEN Effect(Raise(seen), fs)
        ELSE IF item.k # "dir" THEN Effect(Raise("NotADirectoryError"), fs)
        ELSE IF self.pref_line.t # "str" THEN Effect(Raise("TypeError"), fs)
        ELSE Effect(Returned(TRUE),
                    [fs EXCEPT !.firefox.entries[i].user_js =
                        file_appended(user_js, pref_text(self.pref_line.v))])

\* A loop that goes on to the last item whose name contains '.default'.
configure_last_profile(self, fs) ==
    LET defaults == {i \in 1..Len(fs.firefox.entries) : fs.firefox.entries[i].default}
    IN  IF fs.firefox.k = "absent" THEN Effect(Returned(FALSE), fs)
        ELSE IF fs.firefox.k = "file" THEN Effect(Raise("NotADirectoryError"), fs)
        ELSE IF defaults = {} THEN Effect(Returned(FALSE), fs)
        ELSE configure_profile(self, fs, CHOOSE i \in defaults : \A j \in defaults : i >= j)

\* os.listdir of a profile_dir that is a file raises NotADirectoryError.
\* The loop ends at the first item whose name contains '.default', by
\* return or by break.
FirefoxConfigureHandler_configure(self, fs) ==
    LET defaults == {i \in 1..Len(fs.firefox.entries) : fs.firefox.entries[i].default}
    IN  IF fs.firefox.k = "absent" THEN Effect(Returned(FALSE), fs)
        ELSE IF fs.firefox.k = "file" THEN Effect(Raise("NotADirectoryError"), fs)
        ELSE IF defaults = {} THEN Effect(Returned(FALSE), fs)
        ELSE configure_profile(self, fs, CHOOSE i \in defaults : \A j \in defaults : i <= j)

OpenSettingsHandler__init__(type_, open_target) ==
    Returned(Handler("OpenSettingsHandler", [type |-> type_, target |-> open_target]))

\* webbrowser.open(target); subprocess.Popen(cmd) does not wait for the
\* process, only a failure to start it (OSError) gives False.
OpenSettingsHandler_configure(self, fs, env) ==
    IF self.type = "url" THEN Effect(Returned(TRUE), fs)
    ELSE IF self.type = "command"
         THEN LET cmd == IF self.target.t = "list" THEN self.target
                         ELSE JList(<<self.target>>)
              IN  IF cmd_error(cmd) # "" THEN Effect(Raise(cmd_error(cmd)), fs)
                  ELSE Effect(Returned(env.start # "oserror"), fs)
    ELSE Effect(Returned(FALSE), fs)

CheckClasses ==
    {"JsonKeyCheckHandler", "FileContainsCheckHandler", "FileExistsCheckHandler",
     "CommandCheckHandler", "AlwaysTrueCheckHandler", "FirefoxProfileCheckHandler"}

ConfigureClasses ==
    {"JsonSetConfigureHandler", "FileAppendConfigureHandler", "CommandConfigureHandler",
     "ManualConfigureHandler", "FirefoxConfigureHandler", "OpenSettingsHandler"}

\* Whether executing the handler runs a command.
runs_command(self) ==
    \/ self.cls \in {"CommandCheckHandler", "CommandConfigureHandler"}
          /\ cmd_error(self.args.cmd) = ""
    \/ self.cls = "OpenSettingsHandler" /\ self.args.type = "command"
          /\ cmd_error(IF self.args.target.t = "list" THEN self.args.target
                       ELSE JList(<<self.args.target>>)) = ""

\* The seconds execute() keeps its caller: subprocess.run waits for the
\* command, subprocess.Popen does not.
time_blocked(self, env) ==
    IF ~runs_command(self) THEN 0
    ELSE IF self.cls = "CommandCheckHandler" THEN subprocess_run(CHECK_TIMEOUT, env).waited
    ELSE IF self.cls = "CommandConfigureHandler"
         THEN subprocess_run(CONFIGURE_TIMEOUT, env).waited
    ELSE 0

\* self.check() of a check handler against the file system and the
\* operating system's answer to a command.
check(self, fs, env) ==
    CASE self.cls = "JsonKeyCheckHandler" -> JsonKeyCheckHandler_check(self.args, fs)
      [] self.cls = "FileContainsCheckHandler" -> FileContainsCheckHandler_check(self.args, fs)
      [] self.cls = "FileExistsCheckHandler" -> FileExistsCheckHandler_check(self.args, fs)
      [] self.cls = "CommandCheckHandler" -> CommandCheckHandler_check(self.args, env)
      [] self.cls = "AlwaysTrueCheckHandler" -> AlwaysTrueCheckHandler_check(self.args)
      [] self.cls = "FirefoxProfileCheckHandler" -> FirefoxProfileCheckHandler_check(self.args, fs)

\* self.configure() of a configure handler.
configure(self, fs, env) ==
    CASE self.cls = "JsonSetConfigureHandler" -> JsonSetConfigureHandler_configure(self.args, fs)
      [] self.cls = "FileAppendConfigureHandler" -> FileAppendConfigureHandler_configure(self.args, fs)
      [] self.cls = "CommandConfigureHandler" -> CommandConfigureHandler_configure(self.args, fs, env)
      [] self.cls = "ManualConfigureHandler" -> ManualConfigureHandler_configure(self.args, fs)
      [] self.cls = "FirefoxConfigureHandler" -> FirefoxConfigureHandler_configure(self.args, fs)
      [] self.cls = "OpenSettingsHandler" -> OpenSettingsHandler_configure(self.args, fs, env)

-----------------------------------------------------------------------------
(* plugin_handlers.py: HandlerFactory *)

\* A config.get that never finds the key.
config_get_misses(config, key, default) == default

\* config.get(key, default)
config_get(config, key, default) == dict_get(config.v, K(key), default)

Tag(type) == JStr(K(type))

\* `if not config` takes None and {}; .get on anything else that is not a
\* dict raises AttributeError.
create_check_handler(config, parent_window) ==
    IF Falsy(config) THEN Returned(None)
    ELSE IF ~IsDict(config) THEN Raise("AttributeError")
    ELSE LET handler_type == config_get(config, "type", None)
         IN  IF handler_type = Tag("json_key")
             THEN JsonKeyCheckHandler__init__(config_get(config, "path", JStr(<<>>)),
                                              config_get(config, "key", JStr(<<>>)),
                                              config_get(config, "value", None))
             ELSE IF handler_type = Tag("file_contains")
             THEN FileContainsCheckHandler__init__(config_get(config, "path", JStr(<<>>)),
                                                   config_get(config, "pattern", JStr(<<>>)))
             ELSE IF handler_type = Tag("file_exists")
             THEN FileExistsCheckHandler__init__(config_get(config, "path", JStr(<<>>)))
             ELSE IF handler_type = Tag("command")
             THEN CommandCheckHandler__init__(config_get(config, "cmd", EmptyList))
             ELSE IF handler_type = Tag("always_true")
             THEN AlwaysTrueCheckHandler__init__
             ELSE IF handler_type = Tag("firefox_profile")
             THEN FirefoxProfileCheckHandler__init__(config_get(config, "pattern", JStr(<<>>)))
             ELSE Returned(None)

create_configure_handler(config, parent_window) ==
    IF Falsy(config) THEN Returned(None)
    ELSE IF ~IsDict(config) THEN Raise("AttributeError")
    ELSE LET handler_type == config_get(config, "type", None)
         IN  IF handler_type = Tag("json_set")
             THEN JsonSetConfigureHandler__init__(config_get(config, "path", JStr(<<>>)),
                                                  config_get(config, "key", JStr(<<>>)),
                                                  config_get(config, "value", None))
             ELSE IF handler_type = Tag("file_append")
             THEN FileAppendConfigureHandler__init__(config_get(config, "path", JStr(<<>>)),
                                                     config_get(config, "content", JStr(<<>>)),
                                                     config_get(config, "checkPattern", None))
             ELSE IF handler_type = Tag("command")
             THEN CommandConfigureHandler__init__(config_get(config, "cmd", EmptyList))
             ELSE IF handler_type = Tag("manual")
             THEN ManualConfigureHandler__init__(config_get(config, "message", JStr(<<>>)),
                                                 parent_window)
             ELSE IF handler_type = Tag("firefox")
             THEN FirefoxConfigureHandler__init__(config_get(config, "prefLine", JStr(<<>>)),
                                                  config_get(config, "checkPattern", JStr(<<>>)))
             ELSE IF handler_type = Tag("url") \/ handler_type = Tag("open_settings")
             THEN OpenSettingsHandler__init__(
                      "url", config_get(config, "url", config_get(config, "target", JStr(<<>>))))
             ELSE Returned(None)

create_open_settings_handler(config) ==
    IF Falsy(config) THEN Returned(None)
    ELSE IF ~IsDict(config) THEN Raise("AttributeError")
    ELSE LET handler_type == config_get(config, "type", None)
         IN  IF handler_type = Tag("url")
             THEN OpenSettingsHandler__init__("url", config_get(config, "url", JStr(<<>>)))
             ELSE IF handler_type = Tag("command")
             THEN OpenSettingsHandler__init__("command", config_get(config, "cmd", EmptyList))
             ELSE Returned(None)

\* The handler variables of a program that has built no handler yet.
HandlersIdle ==
    /\ target = "none"
    /\ filesys = NoFiles
    /\ handler = None
    /\ called = <<"(none)">>
    /\ outcome = NoOutcome
    /\ result = NoOutcome
    /\ process = NoProcess
    /\ waited = 0

-----------------------------------------------------------------------------
(* Descriptor files the loader is run on *)

FooBarKey == <<"f", "o", "o", "B", "a", "r">>

CheckDescriptor ==
    JMap(Field("type", JStr(K("file_exists"))) @@ Field("path", JStr(K("~/.config/x"))))

\* The system root's plugin x: every field is given.
ExtX ==
    JsonFile(JMap(
        Field("name", JStr(<<"x">>))
        @@ Field("displayName", JStr(<<"B">>))
        @@ Field("description", JStr(K("system")))
        @@ Field("version", JStr(K("2.0.0")))
        @@ Field("type", JStr(K("editor")))
        @@ Field("wmClass", JList(<<JStr(K("X"))>>))
        @@ Field("features", JMap(Field("isSingleInstance", JBool(TRUE))))
        @@ Field("launch", JMap(
               Field("executables", JList(<<JStr(K("x"))>>))
               @@ Field("conditionalFlags",
                        JMap(FlagKeyOrder[1] :> JList(<<JStr(K("--x"))>>)))))
        @@ Field("settings", JMap(
               <<"a">> :> JMap(Field("type", JStr(K("app_config")))
                               @@ Field("check", CheckDescriptor))))))

\* The user root's plugin x: only a name, every other field defaults.
UserX == JsonFile(JMap(Field("name", JStr(<<"x">>))))

\* An edited user descriptor of x.
UserX2 ==
    JsonFile(JMap(Field("name", JStr(<<"x">>)) @@ Field("displayName", JStr(<<"b">>))
                  @@ Field("type", JStr(K("browser")))))

ExtY ==
    JsonFile(JMap(Field("name", JStr(<<"y">>)) @@ Field("displayName", JStr(<<"a">>))
                  @@ Field("type", JStr(K("editor")))))

\* Descriptors that cannot be loaded.
NonMapTop     == JsonFile(JList(<<JNum(1)>>))
NonMapSetting == JsonFile(JMap(Field("name", JStr(<<"y">>))
                               @@ Field("settings", JMap(<<"a">> :> JNum(5)))))
NoName        == JsonFile(JMap(Field("displayName", JStr(<<"y">>))))
EmptyName     == JsonFile(JMap(Field("name", JStr(<<>>))))

UnloadableFiles ==
    {UnreadableFile, UndecodableFile, MalformedFile, NonMapTop, NonMapSetting, NoName, EmptyName}

ExtFiles  == {ExtX, ExtY, UnreadableFile, MalformedFile, NonMapTop, NonMapSetting}
UserFiles == {UserX, UndecodableFile, NoName, EmptyName}

PluginNames == {<<"x">>, <<"y">>}
PluginTypes == {K("editor"), K("browser")}

SeqsUpTo(S, n) == UNION {[1..k -> S] : k \in 0..n}

Roots(files) ==
    {Root("dir", entries) : entries \in SeqsUpTo(files, MaxDirs)}
    \cup {Root("missing", <<>>), Root("file", <<>>), Root("unlistable", <<>>)}

-----------------------------------------------------------------------------
(* tabs/preferences.py, tabs/apps.py: the state of the settings UI *)

\* The defaults of _load_preferences.
DefaultPreferences ==
    (K("rememberSticky") :> TRUE) @@ (K("rememberAlwaysOnTop") :> TRUE)
    @@ (K("rememberShaded") :> FALSE) @@ (K("rememberFullscreen") :> TRUE)
    @@ (K("restoreMinimized") :> FALSE) @@ (K("trackDialogs") :> FALSE)
    @@ (K("trackAllWorkspaces") :> TRUE) @@ (K("autoRestore") :> TRUE)
    @@ (K("clampToScreen") :> TRUE) @@ (K("restoreWorkspace") :> TRUE)
    @@ (K("showProgressWindow") :> TRUE)

\* The launchFlags of the defaults of _load_extension_settings.
DefaultLaunchFlags ==
    (K("browserSessionRestore") :> TRUE) @@ (K("firefoxSessionRestore") :> TRUE)
    @@ (K("kateSessionRestore") :> TRUE) @@ (K("jetbrainsRestore") :> TRUE)

\* A settings file of the UI on disk: what writing it meets - "writable",
\* "denied" (os.makedirs or open(file, 'w') raises) or "full" (open
\* truncates the file and json.dump raises) - and the mapping it holds.
ConfigFile(status, content) == [status |-> status, content |-> content]

\* No progress window is open.
ProgressIdle ==
    /\ apps_to_launch = <<>>
    /\ status_file = NoFile
    /\ store = <<>>
    /\ instance_rows = <<>>
    /\ show_setting = TRUE
    /\ timer = FALSE

\* The windows view has not been created.
WindowsIdle ==
    /\ positions_file = NoFile
    /\ data_manager = EmptyMap
    /\ windows_store = <<>>
    /\ current_view = "application"
    /\ selected = 0

\* No application switch has been touched.
\* class PluginEditDialog: the plugin's directory, config_data, and entries
\* (a dict key -> (type, widget), the widget being the value it shows).
PluginEditDialog(open, plugin_path, config_data, entries) ==
    [open |-> open, plugin_path |-> plugin_path, config_data |-> config_data,
     entries |-> entries]
NoEditDialog == PluginEditDialog(FALSE, <<>>, EmptyMap, <<>>)

SwitchIdle ==
    /\ switch = FALSE
    /\ pending = <<>>
    /\ calls = <<>>
    /\ edit_dialog = NoEditDialog

\* The settings UI has not been used.
UiIdle ==
    /\ grid = <<>>
    /\ tab = NoOutcome
    /\ preferences = DefaultPreferences
    /\ extension_settings = DefaultLaunchFlags
    /\ config_files = [preferences |-> ConfigFile("writable", DefaultPreferences),
                       extension   |-> ConfigFile("writable", DefaultLaunchFlags)]
    /\ dialogs = <<>>
    /\ printed = <<>>
    /\ ProgressIdle
    /\ WindowsIdle
    /\ SwitchIdle

-----------------------------------------------------------------------------
(* The loader as a state machine *)

Self == Loader(plugins, loaded)

\* A call of the loader: `after` is the loader it leaves, `value` what it returns.
Call(name, after, value) ==
    /\ plugins' = after.plugins
    /\ loaded' = after.loaded
    /\ op' = name
    /\ ret' = value
    /\ UNCHANGED disk
    /\ UNCHANGED handlerVars
    /\ UNCHANGED uiVars

LoadAll == Call(<<"load_all">>, load_all(Self, disk), load_all(Self, disk).plugins)

Reload == Call(<<"reload">>, reload(Self, disk), reload(Self, disk).plugins)

GetAllPlugins ==
    LET self == load_all(Self, disk)
    IN  Call(<<"get_all_plugins">>, self, get_all_plugins(self))

GetPlugin ==
    \E name \in PluginNames :
        LET self == load_all(Self, disk)
        IN  Call(<<"get_plugin", name>>, self, get_plugin(self, name))

GetPluginsWithSettings ==
    LET self == load_all(Self, disk)
    IN  Call(<<"get_plugins_with_settings">>, self, get_plugins_with_settings(self))

GetPluginsByType ==
    \E plugin_type \in PluginTypes :
        LET self == load_all(Self, disk)
        IN  Call(<<"get_plugins_by_type", plugin_type>>, self,
                 get_plugins_by_type(self, plugin_type))

GetSortedPlugins ==
    LET self == load_all(Self, disk)
    IN  Call(<<"get_sorted_plugins">>, self, get_sorted_plugins(self))

\* The user, an editor or an installer changes the descriptor files: the
\* i-th plugin directory of a root gets, changes or loses its config.json.
WriteDescriptor ==
    \E base \in {"ext", "user"} :
        \E i \in 1..(Len(disk[base].entries) + 1) :
            \E file \in (IF base = "ext" THEN {ExtX, ExtY, MalformedFile, NoFile}
                                         ELSE {UserX, UserX2, NoFile}) :
                /\ i <= MaxEditedDirs
                /\ disk[base].status = "dir"
                /\ disk' = [disk EXCEPT ![base].entries =
                               IF i <= Len(@) THEN [@ EXCEPT ![i] = file] ELSE Append(@, file)]
                /\ disk' # disk
                /\ op' = <<"(descriptor written)">>
                /\ ret' = None
                /\ UNCHANGED <<plugins, loaded>>
                /\ UNCHANGED handlerVars
                /\ UNCHANGED uiVars

LoaderInit ==
    /\ plugins = <<>>
    /\ loaded = FALSE
    /\ op = <<"__init__">>
    /\ ret = None
    /\ HandlersIdle
    /\ UiIdle

\* The loader run once on every content of the two roots.
ScanInit ==
    /\ disk \in [ext : Roots(ExtFiles), user : Roots(UserFiles)]
    /\ LoaderInit

ScanNext == LoadAll \/ Reload \/ GetAllPlugins \/ GetPlugin

ScanSpec == ScanInit /\ [][ScanNext]_vars

-----------------------------------------------------------------------------
(* What the descriptors on disk amount to, item by item *)

\* The i-th item of a root is a plugin directory whose descriptor loads.
Loads(base_dir, i) ==
    LET root == root_of(disk, base_dir)
    IN  /\ root.status = "dir"
        /\ i \in 1..Len(root.entries)
        /\ root.entries[i].k # "absent"
        /\ LET config == _load_plugin_config(root.entries[i], plugin_path_of(base_dir, i))
           IN  config.o = "return" /\ config.val # None

RecordOf(base_dir, i) ==
    _load_plugin_config(root_of(disk, base_dir).entries[i], plugin_path_of(base_dir, i)).val

\* The records a root's descriptors give for a plugin name.
RecordsNamed(base_dir, name) ==
    {RecordOf(base_dir, i) :
        i \in {j \in 1..Len(root_of(disk, base_dir).entries) :
                  Loads(base_dir, j) /\ RecordOf(base_dir, j).name = name}}

\* The i-th item of a root is a plugin directory whose descriptor cannot be loaded.
Unloadable(base_dir, i) ==
    LET root == root_of(disk, base_dir)
    IN  /\ root.status = "dir"
        /\ i \in 1..Len(root.entries)
        /\ root.entries[i] \in UnloadableFiles

BaseDirs == {EXTENSION_PLUGIN_PATH, USER_PLUGIN_PATH}

-----------------------------------------------------------------------------
(* C1: for a plugin name that both the system root and the user root give a
   loadable descriptor for, the record get_plugin returns after a load is the
   user root's record, whole: it is one of the records the user root's
   descriptors build, so no field of it is the system record's. *)
C1_UserRecordWins ==
    \A name \in PluginNames :
        (loaded /\ RecordsNamed(EXTENSION_PLUGIN_PATH, name) # {}
                /\ RecordsNamed(USER_PLUGIN_PATH, name) # {})
        => /\ get_plugin(Self, name) \in RecordsNamed(USER_PLUGIN_PATH, name)
           /\ get_plugin(Self, name).plugin_path[1] = USER_PLUGIN_PATH
           /\ op = <<"get_plugin", name>> => ret \in RecordsNamed(USER_PLUGIN_PATH, name)

\* Both roots define x, with different fields, and get_plugin("x") has
\* answered with the user root's defaults.
C1_Witness ==
    /\ op = <<"get_plugin", <<"x">>>>
    /\ ExtX \in {disk.ext.entries[i] : i \in 1..Len(disk.ext.entries)}
    /\ UserX \in {disk.user.entries[i] : i \in 1..Len(disk.user.entries)}
    /\ disk.user.status = "dir"
    /\ ret.display_name = JStr(<<"X">>)
    /\ ret.settings = <<>>

(* C2: a plugin directory whose descriptor cannot be loaded gives no record,
   and every plugin that some descriptor of either root does give is present
   in get_all_plugins() after the load, wherever the bad directory is listed. *)
C2_BadDescriptorIsolated ==
    loaded =>
        /\ \A base_dir \in BaseDirs :
              \A i \in 1..Len(root_of(disk, base_dir).entries) :
                 /\ Loads(base_dir, i) =>
                       dict_has(get_all_plugins(Self), RecordOf(base_dir, i).name)
                 /\ Unloadable(base_dir, i) =>
                       \A j \in 1..Len(plugins) :
                           plugins[j].val.plugin_path # plugin_path_of(base_dir, i)
        /\ op = <<"get_all_plugins">> => ret = plugins

\* A descriptor that raises while it is parsed is listed before a valid
\* sibling, and get_all_plugins() has answered with the sibling in it.
C2_Witness ==
    /\ op = <<"get_all_plugins">>
    /\ \E base_dir \in BaseDirs :
          \E i, j \in 1..Len(root_of(disk, base_dir).entries) :
              /\ i < j
              /\ Unloadable(base_dir, i)
              /\ _load_plugin_config(root_of(disk, base_dir).entries[i],
                                     plugin_path_of(base_dir, i)).o = "raise"
              /\ Loads(base_dir, j)
              /\ dict_has(ret, RecordOf(base_dir, j).name)

-----------------------------------------------------------------------------
(* The loader while the descriptor files change under it *)

CacheInit ==
    /\ disk = [ext |-> Root("dir", <<>>), user |-> Root("dir", <<>>)]
    /\ LoaderInit

CacheNext ==
    \/ LoadAll \/ Reload
    \/ GetAllPlugins \/ GetPlugin \/ GetPluginsWithSettings \/ GetPluginsByType
    \/ GetSortedPlugins
    \/ WriteDescriptor

CacheSpec == CacheInit /\ [][CacheNext]_vars

-----------------------------------------------------------------------------
(* What a scan of both roots yields at this moment, said without the scan's
   loop: the names some loadable descriptor gives, each with the record of
   the user root's last loadable descriptor of that name, or else the system
   root's. *)

LoadableItems(base_dir) ==
    {i \in 1..Len(root_of(disk, base_dir).entries) : Loads(base_dir, i)}

LastNamed(base_dir, name) ==
    LET items == {i \in LoadableItems(base_dir) : RecordOf(base_dir, i).name = name}
    IN  RecordOf(base_dir, CHOOSE i \in items : \A j \in items : j <= i)

FreshNames ==
    UNION {{RecordOf(base_dir, i).name : i \in LoadableItems(base_dir)} : base_dir \in BaseDirs}

FreshRecord(name) ==
    IF RecordsNamed(USER_PLUGIN_PATH, name) # {}
    THEN LastNamed(USER_PLUGIN_PATH, name)
    ELSE LastNamed(EXTENSION_PLUGIN_PATH, name)

IsFreshScan(cache) ==
    /\ dict_keys(cache) = FreshNames
    /\ \A name \in FreshNames : dict_at(cache, name) = FreshRecord(name)

\* The records a returned value holds.
RecordsReturned(call, value) ==
    IF call[1] = "get_plugin" THEN (IF value = None THEN {} ELSE {value})
    ELSE IF call[1] = "get_sorted_plugins" THEN {value.val[i] : i \in 1..Len(value.val)}
    ELSE {value[i].val : i \in 1..Len(value)}

LoaderCalls ==
    {"load_all", "get_all_plugins", "get_plugin", "get_plugins_by_type",
     "get_plugins_with_settings", "get_sorted_plugins"}

(* C3: once the loader has loaded, load_all() and every query leave the cache
   as it is and return records of that cache, whatever has happened to the
   descriptor files since; only reload() changes the cache, and after
   reload() the cache is what a scan of both roots yields at that moment. *)
C3_CacheChangesOnlyOnReload ==
    [][ /\ (loaded /\ op' # <<"reload">>) => (plugins' = plugins /\ loaded')
        /\ (loaded /\ op'[1] \in LoaderCalls) =>
               RecordsReturned(op', ret') \subseteq {plugins[i].val : i \in 1..Len(plugins)}
        /\ (loaded /\ op'[1] \in {"load_all", "get_all_plugins"}) => ret' = plugins
        /\ op' = <<"reload">> =>
               (disk' = disk /\ loaded' /\ IsFreshScan(plugins') /\ ret' = plugins')
      ]_loaderVars

\* get_plugin("x") has answered with a record although no descriptor on disk
\* gives x any more: the cached record, after the file was removed.
C3_Witness ==
    /\ loaded
    /\ op = <<"get_plugin", <<"x">>>>
    /\ ret # None
    /\ <<"x">> \notin FreshNames


-----------------------------------------------------------------------------
(* Bounds of the handler model *)

\* Characters in the text file the append handler writes to.
MaxText == 3

\* Entries in the listing of ~/.mozilla/firefox.
MaxProfiles == 2

\* Preference blocks appended to one user.js.
MaxPrefLines == 2

-----------------------------------------------------------------------------
(* Handler descriptors and files the handlers are run on *)

\* A descriptor {type, ...parameters}.
Desc(type, params) == JMap(Field("type", Tag(type)) @@ params)
Bare(type) == JMap(Field("type", Tag(type)))

JsonKeys == {<<"a">>, <<"a", ".", "b">>}
JsonValues == {JNum(1), JNum(2)}
ExpectedValues == JsonValues \cup {JBool(TRUE)}

JsonDescriptors ==
    {Desc("json_key", Field("path", JStr(JSON_PATH)) @@ Field("key", JStr(k))
                      @@ Field("value", v)) : k \in JsonKeys, v \in ExpectedValues}
    \cup {Desc("json_set", Field("path", JStr(JSON_PATH)) @@ Field("key", JStr(k))
                           @@ Field("value", v)) : k \in JsonKeys, v \in JsonValues}
    \cup {Desc("file_exists", Field("path", JStr(JSON_PATH))),
          Bare("json_key"), Bare("json_set"), Bare("file_exists")}

Patterns == {<<>>, <<"p">>}
Contents == {<<"p">>, <<"x">>, <<"x", "p">>}

TextDescriptors ==
    {Desc("file_contains", Field("path", JStr(TEXT_PATH)) @@ Field("pattern", JStr(p))) :
        p \in Patterns}
    \cup {Desc("file_append", Field("path", JStr(TEXT_PATH)) @@ Field("content", JStr(c))
                              @@ Field("checkPattern", JStr(p))) :
             c \in Contents, p \in Patterns}
    \cup {Desc("file_append", Field("path", JStr(TEXT_PATH)) @@ Field("content", JStr(c))) :
             c \in Contents}
    \cup {Desc("file_exists", Field("path", JStr(TEXT_PATH))),
          Bare("file_contains"), Bare("file_append")}

PREF == "user_pref(\"browser.startup.page\", 3);"
OTHER_PREF == "user_pref(\"browser.sessionstore.resume\", true);"

FirefoxDescriptors ==
    {Desc("firefox_profile", Field("pattern", JStr(<<PREF>>))), Bare("firefox_profile"),
     Desc("firefox", Field("prefLine", JStr(<<PREF>>)) @@ Field("checkPattern", JStr(<<PREF>>))),
     Desc("firefox", Field("prefLine", JStr(<<OTHER_PREF>>))
                     @@ Field("checkPattern", JStr(<<PREF>>))),
     Desc("firefox", Field("prefLine", JStr(<<PREF>>))), Bare("firefox")}

Commands == {JList(<<JStr(K("pgrep")), JStr(K("app"))>>), EmptyList, JList(<<JNum(1)>>)}

PlainDescriptors ==
    {None, EmptyMap, Bare("bogus"), JMap(Field("path", JStr(TEXT_PATH))),
     JMap(Field("type", JNum(1))),
     Bare("always_true"), Bare("command"), Bare("manual"), Bare("url"),
     Bare("open_settings"),
     Desc("manual", Field("message", JStr(K("Enable session restore in the app")))),
     Desc("url", Field("url", JStr(K("about:preferences")))),
     Desc("url", Field("url", JStr(K("about:preferences")))
                 @@ Field("target", JStr(K("about:config")))),
     Desc("open_settings", Field("target", JStr(K("about:config"))))}
    \cup {Desc("command", Field("cmd", c)) : c \in Commands}

Targets == {"json", "text", "firefox", "none"}

Descriptors(t) ==
    CASE t = "json" -> JsonDescriptors
      [] t = "text" -> TextDescriptors
      [] t = "firefox" -> FirefoxDescriptors
      [] t = "none" -> PlainDescriptors

JsonDocs ==
    {EmptyMap, EmptyList,
     JMap(<<"a">> :> JNum(1)), JMap(<<"a">> :> JBool(TRUE)),
     JMap(<<"a">> :> JMap(<<"b">> :> JNum(1))),
     JMap((<<"a">> :> JMap((<<"b">> :> JNum(1)) @@ (<<"x">> :> JNum(2))))
          @@ (<<"x">> :> JNum(1))),
     JMap(<<"x">> :> JNum(1))}

\* Text that lists a member and that json.load rejects all the same (a
\* comment or a trailing comma in it).
CommentedFile == File("badjson", JMap(<<"x">> :> JNum(1)))

JsonFilesInit ==
    {NoFile, DirFile, UndecodableFile, MalformedFile, CommentedFile}
    \cup {JsonFile(d) : d \in JsonDocs}

TextFilesInit == {NoFile, DirFile, UndecodableFile, TextFile(<<>>)}

Profiles ==
    {Profile(FALSE, "dir", TextFile(<<PREF>>), NoFile),
     Profile(TRUE, "file", NoFile, NoFile),
     Profile(TRUE, "dir", NoFile, NoFile),
     Profile(TRUE, "dir", TextFile(<<PREF>>), NoFile),
     Profile(TRUE, "dir", TextFile(<<OTHER_PREF>>), NoFile),
     Profile(TRUE, "dir", NoFile, TextFile(<<PREF>>)),
     Profile(TRUE, "dir", UndecodableFile, NoFile),
     Profile(TRUE, "dir", UnreadableFile, NoFile),
     Profile(TRUE, "dir", DirFile, TextFile(<<PREF>>))}

ProfileDirsInit ==
    {NoProfileDir, ProfileDir("file", <<>>)}
    \cup {ProfileDir("dir", entries) : entries \in SeqsUpTo(Profiles, MaxProfiles)}

InitialFiles(t) ==
    CASE t = "json" -> {Files(f, NoFile, NoProfileDir) : f \in JsonFilesInit}
      [] t = "text" -> {Files(NoFile, f, NoProfileDir) : f \in TextFilesInit}
      [] t = "firefox" -> {Files(NoFile, NoFile, d) : d \in ProfileDirsInit}
      [] t = "none" -> {NoFiles}

\* The files stay within the bounds of the model.
WithinBounds(fs) ==
    /\ fs.text.k = "text" => Len(fs.text.v.v) <= MaxText
    /\ \A i \in 1..Len(fs.firefox.entries) :
          fs.firefox.entries[i].user_js.k = "text" =>
              Len(fs.firefox.entries[i].user_js.v.v) <= 3 * MaxPrefLines

PARENT == JStr(K("settings window"))

-----------------------------------------------------------------------------
(* The handlers as a state machine: the settings UI builds a handler from a
   descriptor of the setting at hand and executes it. *)

\* A factory method has been called with a descriptor.
Create(method, config, made) ==
    /\ called' = <<method, config>>
    /\ result' = made
    /\ handler' = IF made.o = "return" THEN made.val ELSE None
    /\ outcome' = NoOutcome
    /\ process' = NoProcess
    /\ waited' = 0
    /\ UNCHANGED <<target, filesys>>
    /\ UNCHANGED loaderVars
    /\ UNCHANGED uiVars

CreateCheckHandler ==
    \E config \in Descriptors(target) :
        Create("create_check_handler", config, create_check_handler(config, PARENT))

CreateConfigureHandler ==
    \E config \in Descriptors(target) :
        Create("create_configure_handler", config, create_configure_handler(config, PARENT))

CreateOpenSettingsHandler ==
    \E config \in Descriptors(target) :
        Create("create_open_settings_handler", config, create_open_settings_handler(config))

\* handler.execute() of a check handler
\* An execute() of a check handler that leaves a file behind where it found
\* none.
execute_check_and_create ==
    /\ handler # None
    /\ handler.cls \in CheckClasses
    /\ \E env \in (IF runs_command(handler) THEN ProcessOutcomes ELSE {NoProcess}) :
          LET checked == check(handler, filesys, env)
          IN  /\ outcome' = checked
              /\ result' = CheckHandler_execute(checked)
              /\ process' = env
              /\ waited' = time_blocked(handler, env)
    /\ called' = <<"execute">>
    /\ filesys' = [filesys EXCEPT
                      !.json = IF @ = NoFile THEN JsonFile(EmptyMap) ELSE @,
                      !.text = IF @ = NoFile THEN TextFile(<<>>) ELSE @]
    /\ UNCHANGED <<target, handler>>
    /\ UNCHANGED loaderVars
    /\ UNCHANGED uiVars

ExecuteCheck ==
    /\ handler # None
    /\ handler.cls \in CheckClasses
    /\ \E env \in (IF runs_command(handler) THEN ProcessOutcomes ELSE {NoProcess}) :
          LET checked == check(handler, filesys, env)
          IN  /\ outcome' = checked
              /\ result' = CheckHandler_execute(checked)
              /\ process' = env
              /\ waited' = time_blocked(handler, env)
    /\ called' = <<"execute">>
    /\ UNCHANGED <<target, filesys, handler>>
    /\ UNCHANGED loaderVars
    /\ UNCHANGED uiVars

\* handler.execute() of a configure handler
ExecuteConfigure ==
    /\ handler # None
    /\ handler.cls \in ConfigureClasses
    /\ \E env \in (IF runs_command(handler) THEN ProcessOutcomes ELSE {NoProcess}) :
          LET configured == configure(handler, filesys, env)
          IN  /\ WithinBounds(configured.files)
              /\ process' = env
              /\ waited' = time_blocked(handler, env)
              /\ outcome' = configured.out
              /\ result' = ConfigureHandler_execute(configured.out)
              /\ filesys' = configured.files
    /\ called' = <<"execute">>
    /\ UNCHANGED <<target, handler>>
    /\ UNCHANGED loaderVars
    /\ UNCHANGED uiVars

LoaderIdle ==
    /\ disk = [ext |-> Root("missing", <<>>), user |-> Root("missing", <<>>)]
    /\ plugins = <<>>
    /\ loaded = FALSE
    /\ op = <<"__init__">>
    /\ ret = None

HandlerInit ==
    /\ target \in Targets
    /\ filesys \in InitialFiles(target)
    /\ handler = None
    /\ called = <<"(none)">>
    /\ outcome = NoOutcome
    /\ result = NoOutcome
    /\ process = NoProcess
    /\ waited = 0
    /\ LoaderIdle
    /\ UiIdle

HandlerNext ==
    \/ CreateCheckHandler \/ CreateConfigureHandler \/ CreateOpenSettingsHandler
    \/ ExecuteCheck \/ ExecuteConfigure

HandlerSpec == HandlerInit /\ [][HandlerNext]_vars

-----------------------------------------------------------------------------
(* C4: execute() of every check and configure handler returns a pair and
   lets no exception out: when check()/configure() raised, the pair is
   (False, message) with the exception's text; when it returned, the pair is
   (its boolean, None).  The failures the handlers meet - a target that is a
   directory, a structured file whose top level is no mapping, an empty or
   invalid command list, a '.default' entry that is a file - do raise inside
   check()/configure(). *)

\* The first entry of the profile listing whose name contains '.default'.
FirstDefault(fs) ==
    LET defaults == {i \in 1..Len(fs.firefox.entries) : fs.firefox.entries[i].default}
    IN  IF defaults = {} THEN 0 ELSE CHOOSE i \in defaults : \A j \in defaults : i <= j

NamedFailure(h, fs) ==
    \/ /\ h.cls \in {"CommandCheckHandler", "CommandConfigureHandler"}
       /\ h.args.cmd.t = "list"
       /\ \/ h.args.cmd.v = <<>>
          \/ \E i \in 1..Len(h.args.cmd.v) : h.args.cmd.v[i].t # "str"
    \/ /\ h.cls = "FirefoxConfigureHandler"
       /\ fs.firefox.k = "dir"
       /\ FirstDefault(fs) # 0
       /\ fs.firefox.entries[FirstDefault(fs)].k = "file"
    \/ /\ h.cls = "JsonSetConfigureHandler"
       /\ file_at(fs, h.args.path).k = "json"
       /\ file_at(fs, h.args.path).v.t # "map"
    \/ /\ h.cls = "FileAppendConfigureHandler"
       /\ file_at(fs, h.args.path).k = "dir"

C4_ExecuteNeverRaises ==
    called = <<"execute">> =>
        /\ result.o = "return"
        /\ outcome.o \in {"raise", "return"}
        /\ outcome.o = "raise" =>
              /\ outcome.val.t = "str"
              /\ outcome.val.v # <<>>
              /\ result.val = <<FALSE, outcome.val>>
        /\ outcome.o = "return" =>
              /\ outcome.val \in BOOLEAN
              /\ result.val = <<outcome.val, None>>
        /\ NamedFailure(handler, filesys) => outcome.o = "raise"

\* The firefox configure handler has met a '.default' entry that is a file:
\* opening user.js under it raised, and execute() answered (False, message).
C4_Witness ==
    /\ called = <<"execute">>
    /\ handler.cls = "FirefoxConfigureHandler"
    /\ filesys.firefox.k = "dir"
    /\ FirstDefault(filesys) # 0
    /\ filesys.firefox.entries[FirstDefault(filesys)].k = "file"
    /\ outcome.o = "raise"
    /\ result.o = "return"
    /\ result.val = <<FALSE, JStr(K("NotADirectoryError"))>>

-----------------------------------------------------------------------------
(* C5: each factory method returns without raising; it returns None for a
   missing or empty descriptor and for a descriptor whose type is absent or
   is no tag of that method, and for a tag of the method it returns the
   handler of that tag's variant, holding the descriptor's parameters with
   the absent ones at their empty values. *)

FactoryMethods ==
    {"create_check_handler", "create_configure_handler", "create_open_settings_handler"}

\* The type tag of a descriptor, "" when it has none.
TagOf(config) ==
    IF config.t = "map" /\ K("type") \in DOMAIN config.v
       /\ config.v[K("type")].t = "str" /\ Len(config.v[K("type")].v) = 1
    THEN config.v[K("type")].v[1]
    ELSE ""

Variants(method) ==
    CASE method = "create_check_handler" ->
            [json_key |-> "JsonKeyCheckHandler", file_contains |-> "FileContainsCheckHandler",
             file_exists |-> "FileExistsCheckHandler", command |-> "CommandCheckHandler",
             always_true |-> "AlwaysTrueCheckHandler",
             firefox_profile |-> "FirefoxProfileCheckHandler"]
      [] method = "create_configure_handler" ->
            [json_set |-> "JsonSetConfigureHandler", file_append |-> "FileAppendConfigureHandler",
             command |-> "CommandConfigureHandler", manual |-> "ManualConfigureHandler",
             firefox |-> "FirefoxConfigureHandler", url |-> "OpenSettingsHandler",
             open_settings |-> "OpenSettingsHandler"]
      [] method = "create_open_settings_handler" ->
            [url |-> "OpenSettingsHandler", command |-> "OpenSettingsHandler"]

\* A parameter of the descriptor, or the empty value when it is absent.
Param(config, key, empty) == IF K(key) \in DOMAIN config.v THEN config.v[K(key)] ELSE empty

PathParam(config) ==
    LET path == Param(config, "path", JStr(<<>>)).v
    IN  IF path # <<>> /\ path[1] = "~" THEN <<HOME>> \o SubSeq(path, 2, Len(path)) ELSE path

ExpectedArgs(method, tag, config) ==
    CASE tag \in {"json_key", "json_set"} ->
            [path |-> PathParam(config), key |-> Param(config, "key", JStr(<<>>)),
             value |-> Param(config, "value", None)]
      [] tag = "file_contains" ->
            [path |-> PathParam(config), pattern |-> Param(config, "pattern", JStr(<<>>))]
      [] tag = "file_exists" -> [path |-> PathParam(config)]
      [] tag = "command" /\ method # "create_open_settings_handler" ->
            [cmd |-> Param(config, "cmd", EmptyList)]
      [] tag = "always_true" -> [none |-> None]
      [] tag = "firefox_profile" -> [pattern |-> Param(config, "pattern", JStr(<<>>))]
      [] tag = "file_append" ->
            [path |-> PathParam(config), content |-> Param(config, "content", JStr(<<>>)),
             check_pattern |-> Param(config, "checkPattern", None)]
      [] tag = "manual" ->
            [message |-> Param(config, "message", JStr(<<>>)), parent |-> PARENT]
      [] tag = "firefox" ->
            [pref_line |-> Param(config, "prefLine", JStr(<<>>)),
             check_pattern |-> Param(config, "checkPattern", JStr(<<>>))]
      [] tag = "url" /\ method = "create_open_settings_handler" ->
            [type |-> "url", target |-> Param(config, "url", JStr(<<>>))]
      [] tag \in {"url", "open_settings"} /\ method = "create_configure_handler" ->
            [type |-> "url",
             target |-> Param(config, "url", Param(config, "target", JStr(<<>>)))]
      [] tag = "command" /\ method = "create_open_settings_handler" ->
            [type |-> "command", target |-> Param(config, "cmd", EmptyList)]

C5_FactoryTotal ==
    called[1] \in FactoryMethods =>
        LET method == called[1]
            config == called[2]
            tag == TagOf(config)
        IN  /\ result.o = "return"
            /\ handler = result.val
            /\ IF config = None \/ config = EmptyMap \/ tag \notin DOMAIN Variants(method)
               THEN result.val = None
               ELSE /\ result.val # None
                    /\ result.val.cls = Variants(method)[tag]
                    /\ result.val.args = ExpectedArgs(method, tag, config)

\* create_configure_handler has built an OpenSettingsHandler from an
\* open_settings descriptor that gives a target and no url.
C5_Witness ==
    /\ called[1] = "create_configure_handler"
    /\ TagOf(called[2]) = "open_settings"
    /\ K("target") \in DOMAIN called[2].v
    /\ handler # None
    /\ handler.cls = "OpenSettingsHandler"
    /\ handler.args.target = JStr(K("about:config"))

-----------------------------------------------------------------------------
(* The loader run on descriptors that declare launch flags *)

ExplicitKeys == {<<"x">>, FooBarKey, <<LaunchFlagsPrefix, "x">>}

ExplicitSetting ==
    JMap(Field("type", JStr(K("boolean"))) @@ Field("label", JStr(K("Mine"))))

FlagDescriptor(flag_keys, setting_keys) ==
    JsonFile(JMap(
        Field("name", JStr(<<"x">>))
        @@ Field("launch", JMap(Field("conditionalFlags",
               JMap([k \in flag_keys |-> JList(<<JStr(K("--x"))>>)]))))
        @@ Field("settings", JMap([k \in setting_keys |-> ExplicitSetting]))))

FlagKeys == {FlagKeyOrder[i] : i \in 1..Len(FlagKeyOrder)}

FlagInit ==
    /\ \E flag_keys \in SUBSET FlagKeys :
          \E setting_keys \in SUBSET ExplicitKeys :
              disk = [ext  |-> Root("dir", <<FlagDescriptor(flag_keys, setting_keys)>>),
                      user |-> Root("missing", <<>>)]
    /\ LoaderInit

FlagNext == LoadAll \/ Reload \/ GetAllPlugins \/ GetPlugin \/ GetPluginsWithSettings

FlagSpec == FlagInit /\ [][FlagNext]_vars

\* The conditionalFlags and the explicit settings of the one descriptor on disk.
DeclaredFlags == disk.ext.entries[1].v.v[K("launch")].v[K("conditionalFlags")].v
DeclaredSettings == disk.ext.entries[1].v.v[K("settings")].v

\* What is left of a key after its 'launchFlags.' prefix.
Remainder(flag_key) == Tail(flag_key)

(* C6: in the record of a loaded descriptor, every conditionalFlags key that
   begins with 'launchFlags.' and whose remainder K is no key of the explicit
   settings gives a setting K of type 'launch_flag' labelled with the
   camel-case split of K; the explicit settings are there as declared; and
   nothing else is synthesized. *)
C6_FlagSynthesis ==
    (loaded /\ dict_has(plugins, <<"x">>)) =>
        LET settings == dict_at(plugins, <<"x">>).settings
            prefixed == {k \in DOMAIN DeclaredFlags : str_startswith(k, LaunchFlagsPrefix)}
        IN  /\ \A flag_key \in prefixed :
                  Remainder(flag_key) \notin DOMAIN DeclaredSettings =>
                      /\ Remainder(flag_key) \in DOMAIN settings
                      /\ settings[Remainder(flag_key)].type = JStr(K("launch_flag"))
                      /\ settings[Remainder(flag_key)].label
                             = JStr(_generate_flag_label(Remainder(flag_key)))
            /\ \A key \in DOMAIN DeclaredSettings :
                  /\ key \in DOMAIN settings
                  /\ settings[key] = _parse_setting(key, DeclaredSettings[key].v)
            /\ DOMAIN settings \subseteq
                  (DOMAIN DeclaredSettings) \cup {Remainder(flag_key) : flag_key \in prefixed}

-----------------------------------------------------------------------------
(* C7: check() of the structured-key handler returns; it returns true when
   the file parses as JSON, the key's segments resolve through nested
   mappings and the leaf equals the expected value, and false otherwise. *)

Resolves(self, fs) ==
    /\ file_at(fs, self.path).k = "json"
    /\ json_lookup(file_at(fs, self.path).v, str_split(self.key.v, ".")).found
    /\ py_eq(json_lookup(file_at(fs, self.path).v, str_split(self.key.v, ".")).val, self.value)

C7_CheckTrueExactlyWhen ==
    (called = <<"execute">> /\ handler.cls = "JsonKeyCheckHandler") =>
        /\ outcome.o = "return"
        /\ outcome.val = Resolves(handler.args, filesys)

-----------------------------------------------------------------------------
(* C8: whatever the target file was - absent, malformed, or a JSON mapping
   in which segments of the key path are missing - execute() of the set
   handler reports success, leaves a JSON file, and the structured-key check
   with the same path, key and value then returns true. *)

\* The mappings along the key path that exist are mappings.
RECURSIVE Navigable(_, _)
Navigable(current, keys) ==
    /\ IsDict(current)
    /\ Len(keys) > 1 /\ Head(keys) \in DOMAIN current.v =>
          Navigable(current.v[Head(keys)], Tail(keys))

PriorStateClaimed(file, keys) ==
    \/ file.k \in {"absent", "badjson", "undecodable"}
    \/ file.k = "json" /\ Navigable(file.v, keys)

C8_SetThenCheckRoundTrips ==
    [][ ( /\ called' = <<"execute">>
          /\ handler # None
          /\ handler.cls = "JsonSetConfigureHandler"
          /\ handler.args.path = expanduser(JSON_PATH)
          /\ PriorStateClaimed(filesys.json, str_split(handler.args.key.v, ".")) )
        => /\ result' = Returned(<<TRUE, None>>)
           /\ filesys'.json.k = "json"
           /\ JsonKeyCheckHandler_check(handler.args, filesys') = Returned(TRUE)
      ]_vars

-----------------------------------------------------------------------------
(* Text append *)

Substrings(s) == {SubSeq(s, i, j) : i \in 1..(Len(s) + 1), j \in 0..Len(s)}

Fresh(file) == file.k = "absent" \/ file = TextFile(<<>>)

\* execute() of a text-append handler aimed at the text file is the step
\* being taken.
AppendStep ==
    /\ called' = <<"execute">>
    /\ handler # None
    /\ handler.cls = "FileAppendConfigureHandler"
    /\ handler.args.path = expanduser(TEXT_PATH)

Succeeded == Returned(<<TRUE, None>>)

(* C9: an append of content to a fresh file reports success, and the
   text-pattern check then returns true for every pattern the content
   contains; an append keeps every pattern the file holds; and an append
   whose checkPattern is a non-empty pattern the file holds reports success
   and leaves the file as it is, every time. *)
C9_AppendIdempotent ==
    [][ AppendStep =>
          /\ Fresh(filesys.text) =>
                /\ result' = Succeeded
                /\ \A P \in Substrings(handler.args.content.v) :
                      FileContainsCheckHandler_check(
                          [path |-> handler.args.path, pattern |-> JStr(P)], filesys')
                      = Returned(TRUE)
          /\ filesys.text.k = "text" =>
                /\ filesys'.text.k = "text"
                /\ \A P \in Substrings(filesys.text.v.v) : str_contains(filesys'.text.v.v, P)
          /\ ( /\ handler.args.check_pattern.t = "str"
               /\ handler.args.check_pattern.v # <<>>
               /\ filesys.text.k = "text"
               /\ str_contains(filesys.text.v.v, handler.args.check_pattern.v) )
             => (result' = Succeeded /\ filesys' = filesys)
      ]_vars

\* The claim as the specification words it: any checkPattern the file holds,
\* the empty one too, makes a further append leave the file as it is.
C9_AnyPatternIdempotent ==
    [][ ( /\ AppendStep
          /\ handler.args.check_pattern.t = "str"
          /\ filesys.text.k = "text"
          /\ filesys.text.v.v # <<>>
          /\ str_contains(filesys.text.v.v, handler.args.check_pattern.v) )
        => (result' = Succeeded /\ filesys' = filesys)
      ]_vars

\* An append of "xp" with checkPattern "p" has reported success on a file
\* that holds "p" and nothing else: it did not write.
C9_Witness ==
    /\ called = <<"execute">>
    /\ handler.cls = "FileAppendConfigureHandler"
    /\ handler.args.check_pattern = JStr(<<"p">>)
    /\ handler.args.content = JStr(<<"x", "p">>)
    /\ filesys.text = TextFile(<<"p">>)
    /\ result = Succeeded

(* C10: a text-append whose target can be opened - a path is given, the
   target is no directory, and it is text wherever a non-empty check pattern
   makes the handler read it - writes unless a non-empty check pattern was
   given and occurs in the file; the file is then its old content followed by
   the descriptor's content; it reports success either way.  An empty check
   pattern counts as none.  A target that cannot be opened is left as it is
   and the call reports (False, message). *)
C10_AppendWritesUnlessPresent ==
    [][ ( /\ called' = <<"execute">>
          /\ handler # None
          /\ handler.cls = "FileAppendConfigureHandler" )
        => LET self == handler.args
               file == file_at(filesys, self.path)
               given == self.check_pattern.t = "str" /\ self.check_pattern.v # <<>>
               openable == /\ self.path # <<>>
                           /\ file.k \notin {"dir", "ioerror"}
                           /\ (given /\ file.k # "absent") => file.k = "text"
               occurs == given /\ file.k = "text"
                               /\ str_contains(file.v.v, self.check_pattern.v)
           IN  IF ~openable
               THEN /\ result'.val[1] = FALSE
                    /\ result'.val[2].t = "str"
                    /\ filesys' = filesys
               ELSE /\ result' = Succeeded
                    /\ IF occurs THEN filesys' = filesys
                       ELSE /\ file.k = "absent" =>
                                  filesys'.text = TextFile(self.content.v)
                            /\ file.k = "text" =>
                                  filesys'.text = TextFile(file.v.v \o self.content.v)
                            /\ file.k = "undecodable" => filesys'.text = file
                            /\ filesys'.json = filesys.json
                            /\ filesys'.firefox = filesys.firefox
      ]_vars

\* The claim as the specification words it, on a target that is absent or
\* text: a check pattern that was given - the empty one too - and occurs in
\* the file keeps the handler from writing.
C10_AnyGivenPatternStopsWrite ==
    [][ ( /\ AppendStep
          /\ filesys.text.k \in {"absent", "text"} )
        => LET self == handler.args
               occurs == /\ self.check_pattern # None
                         /\ filesys.text.k = "text"
                         /\ str_contains(filesys.text.v.v, self.check_pattern.v)
           IN  /\ result' = Succeeded
               /\ occurs => filesys' = filesys
               /\ ~occurs =>
                     filesys'.text = TextFile((IF filesys.text.k = "text"
                                               THEN filesys.text.v.v ELSE <<>>)
                                              \o self.content.v)
      ]_vars

\* An append of "x" with an empty checkPattern has written "x" behind the
\* "x" the file held.
C10_Witness ==
    /\ called = <<"execute">>
    /\ handler.cls = "FileAppendConfigureHandler"
    /\ handler.args.check_pattern = JStr(<<>>)
    /\ handler.args.content = JStr(<<"x">>)
    /\ filesys.text = TextFile(<<"x", "x">>)
    /\ result = Succeeded

-----------------------------------------------------------------------------
(* C11: execute() of a command check or configure handler whose command the
   operating system is asked to run yields (True, None) when the command ends
   in time with status 0, and (False, None) when it ends with another status,
   when it does not end before the timeout (10 s for check, 30 s for
   configure) or when the process cannot be started; the caller is never kept
   longer than the timeout. *)

TimeoutOf(cls) == IF cls = "CommandCheckHandler" THEN 10 ELSE 30

C11_CommandResult ==
    ( /\ called = <<"execute">>
      /\ handler.cls \in {"CommandCheckHandler", "CommandConfigureHandler"}
      /\ process # NoProcess )
    => /\ waited <= TimeoutOf(handler.cls)
       /\ IF /\ process.start = "ok"
             /\ process.returns
             /\ process.seconds <= TimeoutOf(handler.cls)
             /\ process.status = 0
          THEN result = Returned(<<TRUE, None>>)
          ELSE result = Returned(<<FALSE, None>>)

\* A command that never ends has been run by the check handler: execute()
\* answered (False, None) after the ten seconds of the timeout.
C11_Witness ==
    /\ called = <<"execute">>
    /\ handler.cls = "CommandCheckHandler"
    /\ process.start = "ok"
    /\ ~process.returns
    /\ waited = 10
    /\ result = Returned(<<FALSE, None>>)

-----------------------------------------------------------------------------
(* The profile-directory handlers *)

\* The entries of the profile root whose name contains '.default'.
Candidates(fs) == {i \in 1..Len(fs.firefox.entries) : fs.firefox.entries[i].default}

\* The profile root holds exactly one candidate, a directory.
OneCandidate(fs) ==
    /\ fs.firefox.k = "dir"
    /\ Cardinality(Candidates(fs)) = 1
    /\ fs.firefox.entries[FirstDefault(fs)].k = "dir"

\* The user.js an append visits.
VisitedUserJs(fs) == fs.firefox.entries[FirstDefault(fs)].user_js

\* How often a string occurs in a text.
Occurrences(text, s) ==
    Cardinality({i \in 1..(Len(text) - Len(s) + 1) : SubSeq(text, i, i + Len(s) - 1) = s})

\* execute() of a profile-append handler is the step being taken.
ProfileAppendStep ==
    /\ called' = <<"execute">>
    /\ handler # None
    /\ handler.cls = "FirefoxConfigureHandler"

\* The profile check of the pattern on the files.
ProfileCheck(pattern, fs) ==
    FirefoxProfileCheckHandler_check([pattern |-> pattern], fs)

(* C12: with one candidate directory in the profile root, an append whose
   preference line is non-empty and contains its check pattern, made when the
   candidate has no user.js, reports success and leaves a user.js in which
   the preference line occurs once and for which the profile check of the
   check pattern returns true; and an append made when user.js is text that
   holds the check pattern reports success and writes nothing, every time. *)
C12_ProfileAppendIdempotent ==
    [][ (ProfileAppendStep /\ OneCandidate(filesys)) =>
          /\ ( /\ handler.args.pref_line.t = "str"
               /\ handler.args.pref_line.v # <<>>
               /\ str_contains(handler.args.pref_line.v, handler.args.check_pattern.v)
               /\ VisitedUserJs(filesys).k = "absent" )
             => /\ result' = Succeeded
                /\ VisitedUserJs(filesys').k = "text"
                /\ Occurrences(VisitedUserJs(filesys').v.v, handler.args.pref_line.v) = 1
                /\ ProfileCheck(handler.args.check_pattern, filesys') = Returned(TRUE)
          /\ ( /\ VisitedUserJs(filesys).k = "text"
               /\ str_contains(VisitedUserJs(filesys).v.v, handler.args.check_pattern.v) )
             => /\ result' = Succeeded
                /\ filesys' = filesys
                /\ ProfileCheck(handler.args.check_pattern, filesys') = Returned(TRUE)
      ]_vars

\* The claim as the specification words it: with one candidate directory,
\* after any append the profile check of the append's check pattern returns
\* true and the preference line occurs exactly once in user.js.
C12_AnyAppendRoundTrips ==
    [][ (ProfileAppendStep /\ OneCandidate(filesys) /\ handler.args.pref_line.t = "str") =>
          /\ ProfileCheck(handler.args.check_pattern, filesys') = Returned(TRUE)
          /\ VisitedUserJs(filesys').k = "text"
          /\ Occurrences(VisitedUserJs(filesys').v.v, handler.args.pref_line.v) = 1
      ]_vars

\* The append of the preference with itself as check pattern has reported
\* success on the only candidate, whose user.js holds the one block the
\* append writes.
C12_Witness ==
    /\ called = <<"execute">>
    /\ handler.cls = "FirefoxConfigureHandler"
    /\ handler.args.pref_line = JStr(<<PREF>>)
    /\ handler.args.check_pattern = JStr(<<PREF>>)
    /\ OneCandidate(filesys)
    /\ VisitedUserJs(filesys) = TextFile(pref_text(<<PREF>>))
    /\ result = Succeeded

(* C13: one profile-append call changes nothing but the user.js of the
   first candidate of the listing: every other entry, the first candidate's
   prefs.js and the listing itself stay as they are; it reports success
   without writing only when the check pattern is in that user.js; and it
   reports failure when the profile root is absent or lists no candidate. *)
C13_AppendTouchesFirstCandidateOnly ==
    [][ ProfileAppendStep =>
          /\ filesys'.json = filesys.json
          /\ filesys'.text = filesys.text
          /\ filesys'.firefox.k = filesys.firefox.k
          /\ Len(filesys'.firefox.entries) = Len(filesys.firefox.entries)
          /\ \A i \in 1..Len(filesys.firefox.entries) :
                IF i = FirstDefault(filesys)
                THEN filesys'.firefox.entries[i] =
                        [filesys.firefox.entries[i] EXCEPT
                            !.user_js = filesys'.firefox.entries[i].user_js]
                ELSE filesys'.firefox.entries[i] = filesys.firefox.entries[i]
          /\ (result' = Succeeded /\ filesys' = filesys)
             => /\ FirstDefault(filesys) # 0
                /\ VisitedUserJs(filesys).k = "text"
                /\ str_contains(VisitedUserJs(filesys).v.v, handler.args.check_pattern.v)
          /\ (filesys.firefox.k = "absent" \/ FirstDefault(filesys) = 0)
             => (result'.val[1] = FALSE /\ filesys' = filesys)
      ]_vars

\* Of two candidate directories without a user.js the first has received the
\* preference and the second is as it was.
C13_Witness ==
    /\ called = <<"execute">>
    /\ handler.cls = "FirefoxConfigureHandler"
    /\ handler.args.pref_line = JStr(<<PREF>>)
    /\ result = Succeeded
    /\ filesys.firefox.k = "dir"
    /\ filesys.firefox.entries =
          <<Profile(TRUE, "dir", TextFile(pref_text(<<PREF>>)), NoFile),
            Profile(TRUE, "dir", NoFile, NoFile)>>

\* The entry is a candidate directory whose user.js or prefs.js is text that
\* contains the pattern.
Matches(item, pattern) ==
    /\ item.default
    /\ item.k = "dir"
    /\ \E file \in {item.user_js, item.prefs_js} :
          file.k = "text" /\ str_contains(file.v.v, pattern)

\* Every file of every entry is in a state the claim names: missing,
\* unreadable, or text that does or does not match.
NamedStates(fs) ==
    \A i \in 1..Len(fs.firefox.entries) :
        \A file \in {fs.firefox.entries[i].user_js, fs.firefox.entries[i].prefs_js} :
            file.k \in {"absent", "ioerror", "text"}

(* C14: on files that are missing, unreadable or text, the profile check
   returns true exactly when the profile root exists and some candidate
   directory has a user.js or prefs.js containing the pattern, whatever the
   state of the other candidates' files and wherever in the listing the
   candidate stands. *)
C14_CheckFindsAnyMatch ==
    ( /\ called = <<"execute">>
      /\ handler.cls = "FirefoxProfileCheckHandler"
      /\ handler.args.pattern.t = "str"
      /\ NamedStates(filesys) )
    => /\ outcome.o = "return"
       /\ outcome.val = ( /\ filesys.firefox.k = "dir"
                          /\ \E i \in 1..Len(filesys.firefox.entries) :
                                Matches(filesys.firefox.entries[i], handler.args.pattern.v) )

-----------------------------------------------------------------------------
(* The cache of the loader *)

\* The descriptor is a mapping whose name is absent or empty.
Nameless(file) ==
    /\ file.k = "json"
    /\ IsDict(file.v)
    /\ Falsy(dict_get(file.v.v, K("name"), JStr(<<>>)))

\* The nameless descriptors on disk: root and position.
NamelessItems ==
    {item \in {"ext", "user"} \X (1..MaxDirs) :
        /\ item[2] <= Len(disk[item[1]].entries)
        /\ Nameless(disk[item[1]].entries[item[2]])}

\* The disk without the config.json of an item.
Without(d, item) == [d EXCEPT ![item[1]].entries[item[2]] = NoFile]

(* C15: every record of the cache has a non-empty name and is stored under
   that name; and a descriptor whose name is absent or empty leaves the cache
   as the scan finds it without that descriptor: it adds no entry and removes
   or replaces none. *)
C15_CacheKeyedByName ==
    /\ \A i \in 1..Len(plugins) :
          /\ plugins[i].val.name # <<>>
          /\ plugins[i].key = plugins[i].val.name
    /\ loaded =>
          \A item \in NamelessItems :
              plugins = load_all(Loader(<<>>, FALSE), Without(disk, item)).plugins

\* The system root's x is cached while the user root holds a descriptor
\* without a name.
C15_Witness ==
    /\ loaded
    /\ dict_has(plugins, <<"x">>)
    /\ dict_at(plugins, <<"x">>).plugin_path[1] = EXTENSION_PLUGIN_PATH
    /\ \E item \in NamelessItems : item[1] = "user"

-----------------------------------------------------------------------------
(* The loader run on one descriptor of the system root: names of lower-case
   and upper-case letters and hyphens, with or without a displayName, with
   every other field given or every other field left out. *)

\* Characters in a plugin name.
MaxNameLen == 3

NameChars == {"a", "B", "-"}

DescriptorNames == UNION {[1..n -> NameChars] : n \in 1..MaxNameLen}

DisplayNames == {JStr(<<"a", "-", "B">>), JStr(<<>>), JNull}

OtherFields ==
    Field("description", JStr(K("a plugin")))
    @@ Field("version", JStr(K("2.0.0")))
    @@ Field("type", JStr(K("editor")))
    @@ Field("wmClass", JList(<<JStr(K("X"))>>))
    @@ Field("launch", JMap(Field("executables", JList(<<JStr(K("x"))>>))
                            @@ Field("flags", JList(<<JStr(K("--new-window"))>>))
                            @@ Field("conditionalFlags",
                                     JMap(FlagKeyOrder[1] :> JList(<<JStr(K("--x"))>>)))))
    @@ Field("settings", JMap(<<"a">> :> JMap(Field("type", JStr(K("app_config"))))))

NameDescriptors ==
    {JsonFile(JMap(Field("name", JStr(name)) @@ display @@ others)) :
        name \in DescriptorNames,
        display \in {<<>>} \cup {Field("displayName", d) : d \in DisplayNames},
        others \in {<<>>, OtherFields}}

NameInit ==
    /\ \E file \in NameDescriptors :
          disk = [ext |-> Root("dir", <<file>>), user |-> Root("missing", <<>>)]
    /\ LoaderInit

\* The plugin of the descriptor on disk, or another one, is asked for.
GetNamedPlugin ==
    \E name \in {disk.ext.entries[1].v.v[K("name")].v} \cup PluginNames :
        LET self == load_all(Self, disk)
        IN  Call(<<"get_plugin", name>>, self, get_plugin(self, name))

NameNext == LoadAll \/ Reload \/ GetAllPlugins \/ GetNamedPlugin

NameSpec == NameInit /\ [][NameNext]_vars

\* The one descriptor on disk.
Declared == disk.ext.entries[1].v.v

\* `title` is `name` with every hyphen replaced by a space, every letter that
\* begins a run of letters in upper case and every other letter in lower case.
IsTitleOf(title, name) ==
    /\ Len(title) = Len(name)
    /\ \A i \in 1..Len(name) :
          IF name[i] = "-" THEN title[i] = " "
          ELSE IF i = 1 \/ ~IsCased(name[i - 1]) THEN title[i] = ToUpper(name[i])
          ELSE title[i] = ToLower(name[i])

(* C16: the record returned for the name of a descriptor has the
   descriptor's displayName as display_name when the key is there, and
   otherwise the name with hyphens replaced by spaces and title-cased; when
   the other keys are absent, version is "1.0.0", the list fields are empty
   lists and the map fields are empty maps. *)
C16_DisplayNameAndDefaults ==
    (op = <<"get_plugin", Declared[K("name")].v>>) =>
        /\ ret # None
        /\ ret.name = Declared[K("name")].v
        /\ IF K("displayName") \in DOMAIN Declared
           THEN ret.display_name = Declared[K("displayName")]
           ELSE /\ ret.display_name.t = "str"
                /\ IsTitleOf(ret.display_name.v, Declared[K("name")].v)
        /\ K("version") \notin DOMAIN Declared => ret.version = JStr(<<"1.0.0">>)
        /\ K("wmClass") \notin DOMAIN Declared => ret.wm_class = JList(<<>>)
        /\ K("launch") \notin DOMAIN Declared =>
              /\ ret.executables = JList(<<>>)
              /\ ret.flags = JList(<<>>)
              /\ ret.conditional_flags = JMap(<<>>)
        /\ (K("launch") \notin DOMAIN Declared /\ K("settings") \notin DOMAIN Declared)
              => DOMAIN ret.settings = {}

\* The descriptor that gives nothing but the name "a-B" has been queried:
\* its record is displayed as "A B" in version "1.0.0".
C16_Witness ==
    /\ op = <<"get_plugin", <<"a", "-", "B">> >>
    /\ DOMAIN Declared = {K("name")}
    /\ ret # None
    /\ ret.display_name = JStr(<<"A", " ", "B">>)
    /\ ret.version = JStr(<<"1.0.0">>)

-----------------------------------------------------------------------------
(* Roots that cannot be scanned *)

\* The root is missing, is no directory, or cannot be listed.
Unreachable(base_dir) == root_of(disk, base_dir).status # "dir"

OtherRoot(base_dir) ==
    IF base_dir = EXTENSION_PLUGIN_PATH THEN USER_PLUGIN_PATH ELSE EXTENSION_PLUGIN_PATH

\* The names a root's loadable descriptors give.
NamesOf(base_dir) == {RecordOf(base_dir, i).name : i \in LoadableItems(base_dir)}

(* C17: load_all() and reload() end with the store marked loaded and return
   the cache; when a root is missing, is no directory or cannot be listed, no
   record of the cache comes from it, and the cache holds exactly the plugins
   the other root's loadable descriptors give, each with the record of its
   last descriptor - none at all when the other root cannot be reached
   either. *)
C17_UnreachableRootAddsNothing ==
    (op[1] \in {"load_all", "reload"}) =>
        /\ loaded
        /\ ret = plugins
        /\ \A base_dir \in BaseDirs :
              Unreachable(base_dir) =>
                  /\ \A i \in 1..Len(plugins) : plugins[i].val.plugin_path[1] # base_dir
                  /\ dict_keys(plugins) = NamesOf(OtherRoot(base_dir))
                  /\ \A name \in NamesOf(OtherRoot(base_dir)) :
                        dict_at(plugins, name) = LastNamed(OtherRoot(base_dir), name)

\* load_all() has returned the system root's x and y while the user root
\* cannot be listed.
C17_Witness ==
    /\ op = <<"load_all">>
    /\ disk.user.status = "unlistable"
    /\ disk.ext.status = "dir"
    /\ dict_keys(ret) = {<<"x">>, <<"y">>}

-----------------------------------------------------------------------------
(* The queries of the loader, on caches whose display names differ in case,
   tie, or are no strings *)

ExtF ==
    JsonFile(JMap(Field("name", JStr(<<"f">>)) @@ Field("displayName", JStr(<<"A">>))
                  @@ Field("type", JStr(K("browser")))
                  @@ Field("launch", JMap(Field("conditionalFlags",
                         JMap(K("plain") :> JList(<<JStr(K("--f"))>>)))))))

\* "displayName": null
NullDisplay == JsonFile(JMap(Field("name", JStr(<<"y">>)) @@ Field("displayName", JNull)))

QueryInit ==
    /\ disk \in [ext : Roots({ExtX, ExtY, ExtF}), user : Roots({UserX2, NullDisplay})]
    /\ LoaderInit

QueryNext ==
    \/ LoadAll \/ Reload
    \/ GetAllPlugins \/ GetPlugin \/ GetPluginsWithSettings \/ GetPluginsByType
    \/ GetSortedPlugins

QuerySpec == QueryInit /\ [][QueryNext]_vars

\* The entries of a dict.
Entries(d) == {d[i] : i \in 1..Len(d)}

(* C18: each query returns the cached plugins of its predicate and nothing
   else: get_plugins_with_settings those with a setting or a conditional
   flag, get_plugins_by_type(t) those of type t, get_plugin(n) the record
   named n or None, and get_sorted_plugins every cached plugin once, in
   non-decreasing order of the lower-cased display_name. *)
C18_QueriesExact ==
    /\ op = <<"get_plugins_with_settings">> =>
          /\ Entries(ret) = {e \in Entries(plugins) :
                                \/ DOMAIN e.val.settings # {}
                                \/ DOMAIN e.val.conditional_flags.v # {}}
          /\ Cardinality(Entries(ret)) = Len(ret)
    /\ op[1] = "get_plugins_by_type" =>
          /\ Entries(ret) = {e \in Entries(plugins) : e.val.plugin_type = JStr(op[2])}
          /\ Cardinality(Entries(ret)) = Len(ret)
    /\ op[1] = "get_plugin" =>
          IF \E e \in Entries(plugins) : e.key = op[2]
          THEN [key |-> op[2], val |-> ret] \in Entries(plugins)
          ELSE ret = None
    /\ op = <<"get_sorted_plugins">> =>
          /\ ret.o = "return"
          /\ Len(ret.val) = Len(plugins)
          /\ {ret.val[i] : i \in 1..Len(ret.val)} = {e.val : e \in Entries(plugins)}
          /\ \A i, j \in 1..Len(ret.val) :
                i < j => ~str_lt(str_lower(ret.val[j].display_name.v),
                                 str_lower(ret.val[i].display_name.v))

-----------------------------------------------------------------------------
(* tabs/apps.py: AppsSessionTab.create and _create_plugin_card *)

\* No row is added for the setting.
NoRow == JStr(<<>>)

\* The body of the loop over plugin.settings.items(): the status the row
\* shows, NoRow, or the exception that leaves the loop.  The factory is
\* called before the try statement; execute() is called inside it.
setting_row(setting, fs, env) ==
    IF setting.type # JStr(K("app_config")) \/ Falsy(setting.check) THEN Returned(NoRow)
    ELSE LET made == create_check_handler(setting.check, PARENT)
         IN  IF made.o = "raise" THEN made
             ELSE IF made.val = None THEN Returned(NoRow)
             ELSE LET executed == CheckHandler_execute(check(made.val, fs, env))
                  IN  IF executed.o = "raise" THEN Returned(JStr(K("?")))
                      ELSE IF executed.val[1] THEN Returned(JStr(K("configured")))
                      ELSE Returned(JStr(K("not configured")))

\* The switches of a card: one for each conditionalFlags key that begins
\* with 'launchFlags.', set to launch_flags.get(setting_key, True).
card_switches(plugin, launch_flags) ==
    LET prefixed == {flag_key \in DOMAIN plugin.conditional_flags.v :
                        str_startswith(flag_key, LaunchFlagsPrefix)}
    IN  [setting_key \in {flag_setting_key(flag_key) : flag_key \in prefixed} |->
            IF setting_key \in DOMAIN launch_flags THEN launch_flags[setting_key] ELSE TRUE]

\* _create_plugin_card: the card, or the exception of a setting whose
\* handler the factory could not build.
_create_plugin_card(plugin, launch_flags, fs, env) ==
    LET failing == {key \in DOMAIN plugin.settings :
                       setting_row(plugin.settings[key], fs, env).o = "raise"}
        shown == {key \in DOMAIN plugin.settings :
                     setting_row(plugin.settings[key], fs, env).val # NoRow}
    IN  IF failing # {}
        THEN setting_row(plugin.settings[CHOOSE key \in failing : TRUE], fs, env)
        ELSE Returned([plugin   |-> plugin.name,
                       switches |-> card_switches(plugin, launch_flags),
                       rows     |-> [key \in shown |->
                                        setting_row(plugin.settings[key], fs, env).val]])

\* The loop of create() over the sorted plugins from the i-th on: a card
\* is attached after it was built.
RECURSIVE attach_cards(_, _, _, _, _, _)
attach_cards(cards, sorted_plugins, i, launch_flags, fs, env) ==
    IF i > Len(sorted_plugins) THEN [out |-> Returned(JStr(K("main_box"))), grid |-> cards]
    ELSE LET card == _create_plugin_card(sorted_plugins[i], launch_flags, fs, env)
         IN  IF card.o = "raise" THEN [out |-> card, grid |-> cards]
             ELSE attach_cards(Append(cards, card.val), sorted_plugins, i + 1,
                               launch_flags, fs, env)

\* The part of create() after get_sorted_plugins() has returned.
create_cards(sorted_plugins, launch_flags, fs, env) ==
    attach_cards(<<>>, sorted_plugins, 1, launch_flags, fs, env)

\* AppsSessionTab.create: what it returns or raises, and the grid.
AppsSessionTab_create(self, launch_flags, fs, env) ==
    IF get_sorted_plugins(self).o = "raise"
    THEN [out |-> Raise("AttributeError"), grid |-> <<>>]
    ELSE create_cards(get_sorted_plugins(self).val, launch_flags, fs, env)

\* The settings window builds the apps tab.  The checks of the descriptors
\* at hand read files and run no command.
AppsTabCreate ==
    LET self == load_all(Self, disk)
        made == AppsSessionTab_create(self, extension_settings, filesys, NoProcess)
    IN  /\ plugins' = self.plugins
        /\ loaded' = self.loaded
        /\ op' = <<"get_sorted_plugins">>
        /\ ret' = get_sorted_plugins(self)
        /\ grid' = made.grid
        /\ tab' = made.out
        /\ UNCHANGED disk
        /\ UNCHANGED handlerVars
        /\ UNCHANGED <<preferences, extension_settings, config_files, dialogs, printed>>
        /\ UNCHANGED <<progressVars, windowsVars, appsVars>>

\* Check descriptors of settings: one whose handler can be built, one of an
\* unknown type, a string where a mapping belongs, and one whose path is null.
GoodCheck ==
    Desc("file_contains", Field("path", JStr(TEXT_PATH)) @@ Field("pattern", JStr(<<"p">>)))
UnknownCheck == Bare("bogus")
NonMapCheck == JStr(K("always_true"))
NullPathCheck == Desc("file_exists", Field("path", JNull))

RenderChecks == {GoodCheck, UnknownCheck, NonMapCheck, NullPathCheck}

AppConfigSetting(descriptor) ==
    JMap(Field("type", JStr(K("app_config"))) @@ Field("check", descriptor))

RenderX(a, b) ==
    JsonFile(JMap(Field("name", JStr(<<"x">>)) @@ Field("displayName", JStr(<<"B">>))
                  @@ Field("launch", JMap(Field("conditionalFlags",
                         JMap(FlagKeyOrder[1] :> JList(<<JStr(K("--x"))>>)))))
                  @@ Field("settings", JMap((<<"a">> :> AppConfigSetting(a))
                                            @@ (<<"b">> :> AppConfigSetting(b))))))

RenderY ==
    JsonFile(JMap(Field("name", JStr(<<"y">>)) @@ Field("displayName", JStr(<<"a">>))
                  @@ Field("settings", JMap(<<"a">> :> AppConfigSetting(GoodCheck)))))

RenderFiles == {RenderX(a, b) : a, b \in RenderChecks} \cup {RenderY}

RenderInit ==
    /\ \E entries \in SeqsUpTo(RenderFiles, MaxDirs) :
          disk = [ext |-> Root("dir", entries), user |-> Root("missing", <<>>)]
    /\ plugins = <<>>
    /\ loaded = FALSE
    /\ op = <<"__init__">>
    /\ ret = None
    /\ target = "text"
    /\ filesys \in {Files(NoFile, file, NoProfileDir) :
                       file \in {NoFile, TextFile(<<"p">>), UndecodableFile}}
    /\ handler = None
    /\ called = <<"(none)">>
    /\ outcome = NoOutcome
    /\ result = NoOutcome
    /\ process = NoProcess
    /\ waited = 0
    /\ UiIdle

RenderNext == LoadAll \/ Reload \/ AppsTabCreate

RenderSpec == RenderInit /\ [][RenderNext]_vars

\* The setting is one the card evaluates: of type 'app_config', with a check
\* descriptor.
Checked(setting) == setting.type = JStr(K("app_config")) /\ ~Falsy(setting.check)

\* The factory gives no handler for the setting's check: it returns None
\* or raises.
Unbuildable(setting) ==
    \/ create_check_handler(setting.check, PARENT).o = "raise"
    \/ create_check_handler(setting.check, PARENT).val = None

(* C19: create() of the apps tab returns with one card for every plugin of
   get_sorted_plugins, in that order, and the card of a plugin shows a status
   for every 'app_config' setting with a check descriptor whose handler can
   be built, whatever the other settings' check descriptors are. *)
C19_EveryCardRendered ==
    (op = <<"get_sorted_plugins">> /\ tab.o # "none") =>
        /\ tab.o = "return"
        /\ Len(grid) = Len(plugins)
        /\ \A i \in 1..Len(plugins) :
              /\ i <= Len(grid)
              /\ grid[i].plugin = ret.val[i].name
              /\ \A key \in DOMAIN ret.val[i].settings :
                    (Checked(ret.val[i].settings[key])
                        /\ ~Unbuildable(ret.val[i].settings[key]))
                    => key \in DOMAIN grid[i].rows

-----------------------------------------------------------------------------
(* tabs/preferences.py, tabs/apps.py: saving a toggle *)

\* Lines printed in one run.
MaxPrinted == 2

\* json.dump(mapping, f) into open(file, 'w') inside try / except Exception:
\* the file afterwards, and the line printed ("" for none).
save_json(file, mapping, message) ==
    IF file.status = "writable" THEN [file |-> ConfigFile("writable", mapping), line |-> ""]
    ELSE IF file.status = "full" THEN [file |-> ConfigFile("full", <<>>), line |-> message]
    ELSE [file |-> file, line |-> message]

\* A save that leaves the file as it is.
save_nothing(file, mapping) == [file |-> file, line |-> ""]

\* PreferencesTab._save_preferences
_save_preferences(file, mapping) == save_json(file, mapping, "Error saving preferences")

\* AppsSessionTab._save_extension_settings
_save_extension_settings(file, mapping) ==
    save_json(file, mapping, "Error saving extension settings")

\* print(line)
print_line(out, line) == IF line = "" THEN out ELSE Append(out, line)

\* The switches the user flips.
PreferenceSwitches == {K("rememberSticky"), K("trackDialogs")}
LaunchFlagSwitches == {K("browserSessionRestore"), K("kateSessionRestore")}

\* PreferencesTab._on_switch_toggled: the user flips the switch of a
\* preference.
OnSwitchToggled ==
    \E key \in PreferenceSwitches :
        LET is_active == ~preferences[key]
            toggled == [preferences EXCEPT ![key] = is_active]
            saved == _save_preferences(config_files.preferences, toggled)
        IN  /\ preferences' = toggled
            /\ config_files' = [config_files EXCEPT !.preferences = saved.file]
            /\ printed' = print_line(printed, saved.line)
            /\ Len(printed') <= MaxPrinted
            /\ tab' = Returned(JStr(K("_on_switch_toggled")))
            /\ UNCHANGED <<grid, extension_settings, dialogs>>
            /\ UNCHANGED <<progressVars, windowsVars, appsVars>>
            /\ UNCHANGED loaderVars
            /\ UNCHANGED handlerVars

\* AppsSessionTab._on_launch_flag_changed: the user flips the switch of a
\* launch flag.
OnLaunchFlagChanged ==
    \E key \in LaunchFlagSwitches :
        LET is_active == ~extension_settings[key]
            toggled == [extension_settings EXCEPT ![key] = is_active]
            saved == _save_extension_settings(config_files.extension, toggled)
        IN  /\ extension_settings' = toggled
            /\ config_files' = [config_files EXCEPT !.extension = saved.file]
            /\ printed' = print_line(printed, saved.line)
            /\ Len(printed') <= MaxPrinted
            /\ tab' = Returned(JStr(K("_on_launch_flag_changed")))
            /\ UNCHANGED <<grid, preferences, dialogs>>
            /\ UNCHANGED <<progressVars, windowsVars, appsVars>>
            /\ UNCHANGED loaderVars
            /\ UNCHANGED handlerVars

\* The settings directory changes under the UI: a file becomes read-only,
\* the disk fills up, or the obstacle goes away.
ConfigDirChanges ==
    \E name \in {"preferences", "extension"} :
        \E status \in {"writable", "denied", "full"} :
            /\ config_files[name].status # status
            /\ config_files' = [config_files EXCEPT ![name].status = status]
            /\ tab' = NoOutcome
            /\ UNCHANGED <<grid, preferences, extension_settings, dialogs, printed>>
            /\ UNCHANGED <<progressVars, windowsVars, appsVars>>
            /\ UNCHANGED loaderVars
            /\ UNCHANGED handlerVars

\* Both tabs are constructed with their settings files in place; no plugin
\* directory plays a part.
ToggleInit ==
    /\ disk = [ext |-> Root("missing", <<>>), user |-> Root("missing", <<>>)]
    /\ LoaderInit

ToggleNext == OnSwitchToggled \/ OnLaunchFlagChanged \/ ConfigDirChanges

ToggleSpec == ToggleInit /\ [][ToggleNext]_vars

\* A toggle is being saved and the file cannot be written.
SaveFails ==
    \/ tab' = Returned(JStr(K("_on_switch_toggled")))
          /\ config_files.preferences.status # "writable"
    \/ tab' = Returned(JStr(K("_on_launch_flag_changed")))
          /\ config_files.extension.status # "writable"

(* C20: when the write of the file fails while a preferences toggle or a
   launch-flag toggle is saved, one dialog is shown to the user, and the
   write is attempted once: one failure is reported, no second attempt
   follows. *)
C20_SaveFailureShowsDialog ==
    [][ SaveFails =>
          /\ Len(dialogs') = Len(dialogs) + 1
          /\ Len(printed') <= Len(printed) + 1
      ]_vars

-----------------------------------------------------------------------------
(* tabs/preferences.py: a toggle is persisted at once *)

\* A preference toggle returns and its write met a writable file.
ToggleSaved ==
    /\ tab' = Returned(JStr(K("_on_switch_toggled")))
    /\ config_files.preferences.status = "writable"

(* C21: when the toggle handler of a preference switch returns and the write
   succeeded, the preferences file holds the new value of the switch for the
   toggled key and, for every other key, the value the in-memory
   preferences held before the toggle. *)
C21_TogglePersistedAtOnce ==
    [][ ToggleSaved =>
          \E key \in DOMAIN preferences :
              /\ preferences'[key] = ~preferences[key]
              /\ config_files'.preferences.content =
                     [preferences EXCEPT ![key] = ~preferences[key]]
      ]_vars

\* A toggle was saved after an earlier save had failed, so that the file had
\* fallen behind the in-memory preferences.
C21_Witness ==
    /\ tab = Returned(JStr(K("_on_switch_toggled")))
    /\ config_files.preferences.status = "writable"
    /\ config_files.preferences.content = preferences
    /\ preferences # DefaultPreferences
    /\ \E i \in 1..Len(printed) : printed[i] = "Error saving preferences"

-----------------------------------------------------------------------------
(* progress_window.py: the progress window *)

\* Items of apps_to_launch, and entries of the status file.
MaxApps == 2
MaxEntries == 2

STATUS_SCHEDULED == "scheduled"
STATUS_READY == "ready"

\* The keys of get_status_info() that the model uses.
StatusInfoKeys == {STATUS_SCHEDULED, STATUS_READY}

\* A JSON object whose members are kept in the order of the file (a Python
\* dict iterates in that order).
JObject(pairs) == [t |-> "object", v |-> pairs]

\* An item of apps_to_launch; MISSING for an item without 'instanceId'.
MISSING == "(missing)"
Item(wmClass, instanceId) == [wmClass |-> wmClass, instanceId |-> instanceId]

\* item.get('instanceId', wm_class)
instance_id_of(item) ==
    IF item.instanceId = MISSING THEN item.wmClass ELSE item.instanceId

AppItems == {Item("Nemo", MISSING), Item("Nemo", "nemo-1"), Item("Kate", MISSING)}

\* A member of the status file: instance id -> info.
Entry(instance_id, info) == [key |-> instance_id, val |-> info]
Info(status) == JMap(Field("status", JStr(K(status))))
Infos == {Info(STATUS_READY), Info("bogus"), EmptyMap}
StatusIds == {"Nemo", "nemo-1", "other"}

\* _build_ui, the loop over apps_to_launch: every item is appended to the
\* store as scheduled, and instance_rows[instance_id] is set to its row.
build_store(apps) == [i \in 1..Len(apps) |-> STATUS_SCHEDULED]

build_instance_rows(apps) ==
    [id \in {instance_id_of(apps[i]) : i \in 1..Len(apps)} |->
        CHOOSE i \in 1..Len(apps) :
            /\ instance_id_of(apps[i]) = id
            /\ \A j \in 1..Len(apps) : instance_id_of(apps[j]) = id => j <= i]

\* update_status_by_iter: a status that is no key of get_status_info() is
\* shown as scheduled.
update_status_by_iter(shown, tree_iter, status) ==
    [shown EXCEPT ![tree_iter] =
        IF status \in StatusInfoKeys THEN status ELSE STATUS_SCHEDULED]

\* The loop of _check_status_file over status_data.items(): an entry whose
\* id has a row and whose info has no 'status' raises KeyError, which ends
\* the loop.
RECURSIVE update_rows(_, _, _)
update_rows(pairs, rows, shown) ==
    IF pairs = <<>> THEN [store |-> shown, exc |-> ""]
    ELSE LET entry == Head(pairs)
         IN  IF entry.key \notin DOMAIN rows
                 THEN update_rows(Tail(pairs), rows, shown)
             ELSE IF K("status") \notin DOMAIN entry.val.v
                 THEN [store |-> shown, exc |-> "KeyError"]
             ELSE update_rows(Tail(pairs), rows,
                      update_status_by_iter(shown, rows[entry.key],
                          entry.val.v[K("status")].v[1]))

\* _check_status_file: the store after the poll, and the exception caught.
_check_status_file(file, rows, shown) ==
    IF ~path_exists(file) THEN [store |-> shown, exc |-> ""]
    ELSE IF file.k = "badjson" THEN [store |-> shown, exc |-> "JSONDecodeError"]
    ELSE IF file.k # "json" THEN [store |-> shown, exc |-> "OSError"]
    ELSE IF file.v.t # "object" THEN [store |-> shown, exc |-> "AttributeError"]
    ELSE update_rows(file.v.v, rows, shown)

\* What the except clauses of _check_status_file write to stderr.
stderr_of(exc) == IF exc \in {"", "JSONDecodeError"} THEN <<>> ELSE <<"stderr">>

\* _load_show_setting: preferences.get("showProgressWindow", True); True
\* when the file cannot be parsed.
_load_show_setting(file) ==
    IF K("showProgressWindow") \in DOMAIN file.content
    THEN file.content[K("showProgressWindow")] ELSE TRUE

\* _save_show_setting: the preferences file is read, the one key is set and
\* the file is written back; every failure is printed.
_save_show_setting(file, setting) ==
    IF file.content = <<>> \/ file.status = "denied"
        THEN [file |-> file, line |-> "Failed to save progress window setting"]
    ELSE IF file.status = "full"
        THEN [file |-> ConfigFile("full", <<>>),
              line |-> "Failed to save progress window setting"]
    ELSE [file |-> ConfigFile("writable",
                       (K("showProgressWindow") :> setting) @@ file.content),
          line |-> ""]

\* ProgressWindow(apps_to_launch)
OpenProgressWindow ==
    \E apps \in SeqsUpTo(AppItems, MaxApps) :
        /\ ~timer
        /\ store = <<>>
        /\ apps # <<>>
        /\ apps_to_launch' = apps
        /\ show_setting' = _load_show_setting(config_files.preferences)
        /\ store' = build_store(apps)
        /\ instance_rows' = build_instance_rows(apps)
        /\ timer' = TRUE
        /\ tab' = Returned(JStr(K("__init__")))
        /\ UNCHANGED <<status_file, grid, preferences, extension_settings,
                       config_files, dialogs, printed>>
        /\ UNCHANGED <<windowsVars, appsVars>>
        /\ UNCHANGED loaderVars
        /\ UNCHANGED handlerVars

\* A poll that consumes the status file: it is removed once it was read.
check_and_remove_status_file ==
    LET polled == _check_status_file(status_file, instance_rows, store)
    IN  /\ timer
        /\ store' = polled.store
        /\ timer' = TRUE
        /\ status_file' = IF status_file.k = "json" THEN NoFile ELSE status_file
        /\ tab' = Returned(JStr(<<"_check_status_file">> \o stderr_of(polled.exc)))
        /\ UNCHANGED <<apps_to_launch, instance_rows, show_setting>>
        /\ UNCHANGED <<grid, preferences, extension_settings, config_files,
                       dialogs, printed>>
        /\ UNCHANGED <<windowsVars, appsVars>>
        /\ UNCHANGED loaderVars
        /\ UNCHANGED handlerVars

\* The timer fires: _check_status_file runs and returns True.
CheckStatusFile ==
    LET polled == _check_status_file(status_file, instance_rows, store)
    IN  /\ timer
        /\ store' = polled.store
        /\ timer' = (polled.exc # "stop")
        /\ tab' = Returned(JStr(<<"_check_status_file">> \o stderr_of(polled.exc)))
        /\ UNCHANGED <<apps_to_launch, status_file, instance_rows, show_setting>>
        /\ UNCHANGED <<grid, preferences, extension_settings, config_files,
                       dialogs, printed>>
        /\ UNCHANGED <<windowsVars, appsVars>>
        /\ UNCHANGED loaderVars
        /\ UNCHANGED handlerVars

\* The user flips "Show this window on startup".
OnCheckboxToggled ==
    LET saved == _save_show_setting(config_files.preferences, ~show_setting)
    IN  /\ timer
        /\ show_setting' = ~show_setting
        /\ config_files' = [config_files EXCEPT !.preferences = saved.file]
        /\ printed' = print_line(printed, saved.line)
        /\ Len(printed') <= MaxPrinted
        /\ tab' = Returned(JStr(K("_on_checkbox_toggled")))
        /\ UNCHANGED <<apps_to_launch, status_file, store, instance_rows, timer>>
        /\ UNCHANGED <<grid, preferences, extension_settings, dialogs>>
        /\ UNCHANGED <<windowsVars, appsVars>>
        /\ UNCHANGED loaderVars
        /\ UNCHANGED handlerVars

\* The user presses Close: the window is destroyed and its timer with it.
CloseProgressWindow ==
    /\ timer
    /\ timer' = FALSE
    /\ tab' = Returned(JStr(K("destroy")))
    /\ UNCHANGED <<apps_to_launch, status_file, store, instance_rows, show_setting>>
    /\ UNCHANGED <<grid, preferences, extension_settings, config_files,
                   dialogs, printed>>
    /\ UNCHANGED <<windowsVars, appsVars>>
    /\ UNCHANGED loaderVars
    /\ UNCHANGED handlerVars

\* The members of the status file ([] when it holds no object).
members_of(file) ==
    IF file.k = "json" /\ file.v.t = "object" THEN file.v.v ELSE <<>>

\* What the extension can make of the status file in one write: a member
\* added, the info of a member replaced, or a file that cannot be used.
StatusWrites(file) ==
    LET pairs == members_of(file)
    IN  {NoFile, MalformedFile, UnreadableFile, JsonFile(EmptyList),
         JsonFile(JObject(<<>>))}
        \cup {JsonFile(JObject(Append(pairs, Entry(id, info)))) :
                id \in {x \in StatusIds :
                          /\ Len(pairs) < MaxEntries
                          /\ \A i \in 1..Len(pairs) : pairs[i].key # x},
                info \in Infos}
        \cup {JsonFile(JObject([pairs EXCEPT ![i].val = info])) :
                i \in 1..Len(pairs), info \in Infos}

\* The extension writes the status file.
ExtensionWritesStatus ==
    \E file \in StatusWrites(status_file) :
        /\ file # status_file
        /\ status_file' = file
        /\ tab' = NoOutcome
        /\ UNCHANGED <<apps_to_launch, store, instance_rows, show_setting, timer>>
        /\ UNCHANGED <<grid, preferences, extension_settings, config_files,
                       dialogs, printed>>
        /\ UNCHANGED <<windowsVars, appsVars>>
        /\ UNCHANGED loaderVars
        /\ UNCHANGED handlerVars

ProgressInit == ToggleInit

ProgressNext ==
    \/ OpenProgressWindow
    \/ CheckStatusFile
    \/ OnCheckboxToggled
    \/ CloseProgressWindow
    \/ ExtensionWritesStatus

ProgressSpec == ProgressInit /\ [][ProgressNext]_vars

\* The main loop runs the timer callback whenever it is due.
ProgressLiveSpec == ProgressSpec /\ WF_vars(CheckStatusFile)

-----------------------------------------------------------------------------
(* progress_window.py: the status file is only read *)

\* A step of the progress window itself.
WindowStep ==
    OpenProgressWindow \/ CheckStatusFile \/ OnCheckboxToggled \/ CloseProgressWindow

(* C22: no action of the progress window (construction, poll, status update
   of a row, checkbox toggle, close) writes, truncates or deletes the
   progress-status file: the file is the same after the action as before. *)
C22_StatusFileOnlyRead == [][WindowStep => status_file' = status_file]_vars

\* A poll has read a status file and changed the status of a row.
C22_Witness ==
    /\ tab = Returned(JStr(<<"_check_status_file">>))
    /\ status_file.k = "json"
    /\ \E i \in 1..Len(store) : store[i] = STATUS_READY

-----------------------------------------------------------------------------
(* progress_window.py: one key of instance_rows for every row *)

(* C26: once the progress window is built, every item of apps_to_launch has
   its own row and its own entry in instance_rows: the number of keys of
   instance_rows equals the number of rows, and every row is the row of
   some key - also when several items share a wmClass and carry no
   instanceId. *)
C26_EveryRowReachable ==
    timer =>
        /\ Len(store) = Len(apps_to_launch)
        /\ Cardinality(DOMAIN instance_rows) = Len(store)
        /\ \A i \in 1..Len(store) : \E id \in DOMAIN instance_rows : instance_rows[id] = i

-----------------------------------------------------------------------------
(* progress_window.py: what a poll shows *)

\* The status file holds the status for the instance id.
Holds(file, id, status) ==
    \E i \in 1..Len(members_of(file)) :
        /\ members_of(file)[i].key = id
        /\ members_of(file)[i].val = Info(status)

\* What the window shows for a status.
ShownFor(status) == IF status \in StatusInfoKeys THEN status ELSE STATUS_SCHEDULED

\* The row of the instance id shows the status.
Displays(rows, shown, id, status) ==
    id \in DOMAIN rows /\ shown[rows[id]] = ShownFor(status)

(* C27: the poll timer stays armed after every poll, and when the status
   file keeps holding status s for an instance id that has a row while the
   window is open, that row eventually displays s (scheduled for a status
   outside the enumeration) and keeps displaying it, whatever the other
   entries of the file contain. *)
C27_PollShowsStatus ==
    /\ [][CheckStatusFile => timer']_vars
    /\ \A id \in StatusIds : \A status \in {STATUS_READY, "bogus"} :
          <>[](timer /\ id \in DOMAIN instance_rows /\ Holds(status_file, id, status))
              => <>[]Displays(instance_rows, store, id, status)

-----------------------------------------------------------------------------
(* progress_window.py, tabs/preferences.py: two writers of preferences.json *)

\* The settings window and the progress window are open at the same time,
\* each in its own process; both have read the same preferences file.
SharedInit == ToggleInit

SharedNext == OpenProgressWindow \/ OnCheckboxToggled \/ OnSwitchToggled

SharedSpec == SharedInit /\ [][SharedNext]_vars

(* C25: with the Preferences tab and the checkbox of the progress window
   writing the same preferences file, the file holds for each key the value
   set by the most recent toggle of that key: the value of a key changes in
   the file only in a step that toggles that key, in either window. *)
C25_LastToggleWins ==
    [][ \A key \in DOMAIN DefaultPreferences :
          config_files'.preferences.content[key] # config_files.preferences.content[key]
              => \/ OnCheckboxToggled /\ key = K("showProgressWindow")
                 \/ OnSwitchToggled /\ preferences'[key] # preferences[key]
      ]_vars

-----------------------------------------------------------------------------
(* plugin_handlers.py: what a structured-key set leaves alone *)

\* execute() of a structured-key set aimed at the JSON file is the step
\* being taken.
JsonSetStep ==
    /\ called' = <<"execute">>
    /\ handler # None
    /\ handler.cls = "JsonSetConfigureHandler"
    /\ handler.args.path = expanduser(JSON_PATH)

\* new is old with the value at the key path and nothing else changed:
\* every key off the path is present in both with the same value, and the
\* mappings along the path exist in new.
RECURSIVE SameOffPath(_, _, _, _)
SameOffPath(old, new, keys, value) ==
    /\ IsDict(old)
    /\ IsDict(new)
    /\ DOMAIN new.v = DOMAIN old.v \cup {Head(keys)}
    /\ \A k \in DOMAIN old.v \ {Head(keys)} : new.v[k] = old.v[k]
    /\ IF Len(keys) = 1 THEN new.v[Head(keys)] = value
       ELSE SameOffPath(IF Head(keys) \in DOMAIN old.v THEN old.v[Head(keys)] ELSE EmptyMap,
                        new.v[Head(keys)], Tail(keys), value)

\* The document json.load makes of a file ({} when it makes none).
DocumentOf(file) == IF file.k = "json" THEN file.v ELSE EmptyMap

\* The members a file lists, whether json.load accepts the text or not.
MembersIn(file) ==
    IF file.k \in {"json", "badjson"} /\ file.v.t # "null" THEN file.v ELSE EmptyMap

(* C28: a structured-key set changes only the leaf addressed by its key path
   and the intermediate mappings it has to create.  When it succeeds, every
   other key of the document that json.load makes of the target file before
   the call is present after it with the same value and no other key has
   appeared; a file that json.load rejects counts as the empty document and
   is replaced.  When the set fails, the file is as it was; the other files
   are never touched. *)
C28_SetLeavesOtherKeys ==
    [][ JsonSetStep =>
          /\ filesys'.text = filesys.text
          /\ filesys'.firefox = filesys.firefox
          /\ IF result' = Succeeded
             THEN /\ filesys'.json.k = "json"
                  /\ SameOffPath(DocumentOf(filesys.json), filesys'.json.v,
                                 str_split(handler.args.key.v, "."), handler.args.value)
             ELSE filesys'.json = filesys.json
      ]_vars

(* C28 as stated, for every prior content of the file: every key the file
   lists before a set that succeeds is present after it with the same
   value, unless it lies on the key path. *)
C28_SetKeepsEveryPriorKey ==
    [][ (JsonSetStep /\ result' = Succeeded) =>
          SameOffPath(MembersIn(filesys.json), filesys'.json.v,
                      str_split(handler.args.key.v, "."), handler.args.value)
      ]_vars

\* A set of a.b has succeeded on a file that held a.b, a.x and x: a.b has
\* the new value and a.x and x are as before.
C28_Witness ==
    /\ called = <<"execute">>
    /\ result = Succeeded
    /\ handler # None
    /\ handler.cls = "JsonSetConfigureHandler"
    /\ handler.args.key = JStr(<<"a", ".", "b">>)
    /\ filesys.json =
          JsonFile(JMap((<<"a">> :> JMap((<<"b">> :> JNum(2)) @@ (<<"x">> :> JNum(2))))
                        @@ (<<"x">> :> JNum(1))))

-----------------------------------------------------------------------------
(* plugin_handlers.py: check handlers read and keep nothing *)

\* The check handlers that run no command.
FileCheckClasses == CheckClasses \ {"CommandCheckHandler"}

\* execute() of such a check handler is the step being taken.
FileCheckStep ==
    /\ called' = <<"execute">>
    /\ handler # None
    /\ handler.cls \in FileCheckClasses

(* C30: evaluating a check handler (structured-key, text-pattern, existence,
   always-true, profile-directory) leaves the file system as it was, and an
   evaluation that follows an evaluation of the same handler against the
   same file system returns the same result. *)
C30_ChecksReadOnly ==
    [][ FileCheckStep =>
          /\ filesys' = filesys
          /\ called = <<"execute">> => (result' = result /\ outcome' = outcome)
      ]_vars

\* A profile-directory check has found its pattern.
C30_Witness ==
    /\ called = <<"execute">>
    /\ handler # None
    /\ handler.cls = "FirefoxProfileCheckHandler"
    /\ result = Returned(<<TRUE, None>>)
    /\ filesys.firefox.k = "dir"

-----------------------------------------------------------------------------
(* tabs/windows.py, utils.py: deleting in the windows view *)

\* Confirmation dialogs answered in one run.
MaxDialogs == 2

\* A saved window: its title and its workspace.
Instance(title, workspace) == [title |-> title, workspace |-> workspace]
WinA == Instance("a", 0)
WinB == Instance("b", 1)

\* positions.json as json.load returns it: "applications" maps a wmClass
\* to its instances; the other top-level members are kept as one value.
Positions(applications, settings) ==
    [applications |-> applications, settings |-> settings]

\* sorted(apps.items()) for the applications of the model.
AppOrder == <<"Kate", "Nemo">>

PositionDocs ==
    {Positions(<<>>, "s"),
     Positions("Kate" :> <<WinB>>, "s"),
     Positions(("Kate" :> <<WinA, WinB>>) @@ ("Nemo" :> <<WinA>>), "s"),
     Positions(("Kate" :> <<WinA, WinA>>) @@ ("Nemo" :> <<WinB, WinA>>), "s"),
     Positions(("Kate" :> <<>>) @@ ("Nemo" :> <<WinA>>), "s")}

\* A row of windows_store: columns 5, 6 and 7.
Row(is_parent, wm_class, instance_index) ==
    [is_parent |-> is_parent, wm_class |-> wm_class, instance_index |-> instance_index]

\* _populate_by_application: for every application in sorted order its
\* parent row and one child row per instance.
RECURSIVE rows_by_application(_, _)
rows_by_application(apps, i) ==
    IF i > Len(AppOrder) THEN <<>>
    ELSE IF AppOrder[i] \notin DOMAIN apps THEN rows_by_application(apps, i + 1)
    ELSE <<Row(TRUE, AppOrder[i], -1)>>
         \o [j \in 1..Len(apps[AppOrder[i]]) |-> Row(FALSE, AppOrder[i], j - 1)]
         \o rows_by_application(apps, i + 1)

\* The child rows of a workspace: every instance on it, application by
\* application, with its index in the instance list of its application.
RECURSIVE rows_on_workspace(_, _, _)
rows_on_workspace(apps, ws, i) ==
    IF i > Len(AppOrder) THEN <<>>
    ELSE IF AppOrder[i] \notin DOMAIN apps THEN rows_on_workspace(apps, ws, i + 1)
    ELSE LET instances == apps[AppOrder[i]]
             all == [j \in 1..Len(instances) |-> Row(FALSE, AppOrder[i], j - 1)]
         IN  SelectSeq(all, LAMBDA r : instances[r.instance_index + 1].workspace = ws)
             \o rows_on_workspace(apps, ws, i + 1)

\* _populate_by_workspace: for every workspace in use a workspace row, a
\* monitor row, and the rows of the windows on it.
RECURSIVE rows_by_workspace(_, _)
rows_by_workspace(apps, workspaces) ==
    IF workspaces = <<>> THEN <<>>
    ELSE LET rows == rows_on_workspace(apps, Head(workspaces), 1)
         IN  (IF rows = <<>> THEN <<>>
              ELSE <<Row(TRUE, "", -1), Row(TRUE, "", -1)>> \o rows)
             \o rows_by_workspace(apps, Tail(workspaces))

\* _populate_store
_populate_store(view, document) ==
    IF view = "application" THEN rows_by_application(document.applications, 1)
    ELSE rows_by_workspace(document.applications, <<WinA.workspace, WinB.workspace>>)

\* list.pop(index - 1) for a position 1..Len(list): the list that is left.
list_pop(list, index) ==
    [j \in 1..(Len(list) - 1) |-> IF j < index THEN list[j] ELSE list[j + 1]]

\* del d[key]
dict_del(d, key) == [k \in DOMAIN d \ {key} |-> d[k]]

\* A delete that keeps the application when its last instance goes.
delete_instance_only(apps, wm_class, instance_index) ==
    [apps EXCEPT ![wm_class] = list_pop(@, instance_index)]

\* app_data["instances"].pop(instance_index), and del of the application
\* when no instance is left.
delete_instance(apps, wm_class, instance_index) ==
    IF Len(apps[wm_class]) = 1 THEN dict_del(apps, wm_class)
    ELSE [apps EXCEPT ![wm_class] = list_pop(@, instance_index)]

\* DataManager.save: the file afterwards, and the line printed.
DataManager_save(file, document) ==
    IF file.status = "writable" THEN [file |-> ConfigFile("writable", document), line |-> ""]
    ELSE [file |-> file, line |-> "Error saving data"]

\* What _on_delete_selected asks the user, and what it then deletes: "app",
\* "instance", or "" when the selection allows no delete.
delete_kind(rows, row, apps) ==
    IF row = 0 THEN ""
    ELSE IF rows[row].is_parent /\ rows[row].wm_class # "" THEN "app"
    ELSE IF /\ ~rows[row].is_parent
            /\ rows[row].wm_class # ""
            /\ rows[row].instance_index >= 0
            /\ rows[row].wm_class \in DOMAIN apps
            /\ rows[row].instance_index < Len(apps[rows[row].wm_class])
         THEN "instance"
    ELSE ""

\* The applications after a confirmed delete of the kind.
deleted(kind, apps, row) ==
    IF kind = "app"
        THEN (IF row.wm_class \in DOMAIN apps THEN dict_del(apps, row.wm_class) ELSE apps)
    ELSE delete_instance(apps, row.wm_class, row.instance_index + 1)

Dialog(text, response) == [text |-> text, response |-> response]

\* The user selects a row of the tree, or none.
OnSelectionChanged ==
    \E row \in 0..Len(windows_store) :
        /\ row # selected
        /\ selected' = row
        /\ tab' = Returned(JStr(K("_on_selection_changed")))
        /\ UNCHANGED <<positions_file, data_manager, windows_store, current_view>>
        /\ UNCHANGED <<settingsVars_but_tab, progressVars, appsVars>>
        /\ UNCHANGED loaderVars
        /\ UNCHANGED handlerVars

\* The user switches between the application view and the workspace view.
OnViewChanged ==
    LET view == IF current_view = "application" THEN "workspace" ELSE "application"
    IN  /\ current_view' = view
        /\ windows_store' = _populate_store(view, data_manager)
        /\ selected' = 0
        /\ tab' = Returned(JStr(K("_on_view_changed")))
        /\ UNCHANGED <<positions_file, data_manager>>
        /\ UNCHANGED <<settingsVars_but_tab, progressVars, appsVars>>
        /\ UNCHANGED loaderVars
        /\ UNCHANGED handlerVars

\* The user presses Delete and answers the confirmation, if one is shown.
OnDeleteSelected ==
    \E response \in {"YES", "NO"} :
        LET kind == delete_kind(windows_store, selected, data_manager.applications)
            document == [data_manager EXCEPT !.applications =
                            deleted(kind, @, windows_store[selected])]
            saved == DataManager_save(positions_file, document)
        IN  /\ tab' = Returned(JStr(K("_on_delete_selected")))
            /\ IF kind = ""
               THEN /\ response = "NO"
                    /\ UNCHANGED <<windowsVars, dialogs, printed>>
               ELSE /\ dialogs' = Append(dialogs, Dialog(kind, response))
                    /\ Len(dialogs') <= MaxDialogs
                    /\ IF response = "NO"
                       THEN UNCHANGED <<windowsVars, printed>>
                       ELSE /\ data_manager' = document
                            /\ positions_file' = saved.file
                            /\ printed' = print_line(printed, saved.line)
                            /\ Len(printed') <= MaxPrinted
                            /\ windows_store' = _populate_store(current_view, document)
                            /\ selected' = 0
                            /\ UNCHANGED current_view
            /\ UNCHANGED <<grid, preferences, extension_settings, config_files>>
            /\ UNCHANGED <<progressVars, appsVars>>
            /\ UNCHANGED loaderVars
            /\ UNCHANGED handlerVars

\* SettingsWindow._on_refresh: the data is read again and the tabs are
\* built anew.
OnRefresh ==
    /\ data_manager' = positions_file.content
    /\ windows_store' = _populate_store("application", positions_file.content)
    /\ current_view' = "application"
    /\ selected' = 0
    /\ tab' = Returned(JStr(K("_on_refresh")))
    /\ UNCHANGED positions_file
    /\ UNCHANGED <<settingsVars_but_tab, progressVars, appsVars>>
    /\ UNCHANGED loaderVars
    /\ UNCHANGED handlerVars

\* The settings window has loaded a positions file and shows the windows
\* view.
WindowsInit ==
    /\ disk = [ext |-> Root("missing", <<>>), user |-> Root("missing", <<>>)]
    /\ plugins = <<>>
    /\ loaded = FALSE
    /\ op = <<"__init__">>
    /\ ret = None
    /\ HandlersIdle
    /\ grid = <<>>
    /\ tab = NoOutcome
    /\ preferences = DefaultPreferences
    /\ extension_settings = DefaultLaunchFlags
    /\ config_files = [preferences |-> ConfigFile("writable", DefaultPreferences),
                       extension   |-> ConfigFile("writable", DefaultLaunchFlags)]
    /\ dialogs = <<>>
    /\ printed = <<>>
    /\ ProgressIdle
    /\ SwitchIdle
    /\ \E document \in PositionDocs, status \in {"writable", "denied"} :
          /\ positions_file = ConfigFile(status, document)
          /\ data_manager = document
          /\ windows_store = _populate_store("application", document)
    /\ current_view = "application"
    /\ selected = 0

WindowsNext == OnSelectionChanged \/ OnViewChanged \/ OnDeleteSelected \/ OnRefresh

WindowsSpec == WindowsInit /\ [][WindowsNext]_vars

\* A step of _on_delete_selected.
DeleteStep == tab' = Returned(JStr(K("_on_delete_selected")))

\* The user answered Yes to the confirmation of this step.
ConfirmedDelete ==
    /\ Len(dialogs') = Len(dialogs) + 1
    /\ dialogs'[Len(dialogs')].response = "YES"

\* C29: a confirmed delete removes exactly the selected entry from the
\* positions data and the whole document is written to the file (when the
\* file can be written): an instance row loses the instance at its index
\* and nothing else, the application goes with its last instance, so no
\* delete leaves an empty instance list behind; an application row loses
\* that application only; a declined confirmation, and a workspace or
\* monitor row, change neither the data nor the file.
C29_DeleteRemovesExactlyTheEntry ==
    [][DeleteStep =>
        LET apps == data_manager.applications
            after == data_manager'.applications
            row == windows_store[selected]
        IN  IF ~ConfirmedDelete
            THEN data_manager' = data_manager /\ positions_file' = positions_file
            ELSE /\ selected # 0 /\ row.wm_class # ""
                 /\ data_manager'.settings = data_manager.settings
                 /\ \A a \in DOMAIN apps \ {row.wm_class} :
                        a \in DOMAIN after /\ after[a] = apps[a]
                 /\ DOMAIN after \subseteq DOMAIN apps
                 /\ IF row.is_parent THEN row.wm_class \notin DOMAIN after
                    ELSE LET old == apps[row.wm_class]
                             index == row.instance_index + 1
                         IN  IF Len(old) = 1 THEN row.wm_class \notin DOMAIN after
                             ELSE /\ row.wm_class \in DOMAIN after
                                  /\ Len(after[row.wm_class]) = Len(old) - 1
                                  /\ \A j \in 1..(Len(old) - 1) :
                                        after[row.wm_class][j] =
                                            IF j < index THEN old[j] ELSE old[j + 1]
                 /\ positions_file.status = "writable"
                        => positions_file'.content = data_manager'
    ]_vars

\* The last instance of an application was deleted from the workspace
\* view while another application stays, and the file holds the document.
C29_Witness ==
    /\ tab = Returned(JStr(K("_on_delete_selected")))
    /\ dialogs # <<>>
    /\ dialogs[Len(dialogs)] = Dialog("instance", "YES")
    /\ current_view = "workspace"
    /\ DOMAIN data_manager.applications = {"Kate"}
    /\ Len(data_manager.applications["Kate"]) = 2
    /\ positions_file.content = data_manager

-----------------------------------------------------------------------------
(* tabs/apps.py: the plugin edit dialog *)

\* str(v) of a value shown in a text entry.
py_str(v) == IF v.t = "str" THEN v.v ELSE <<"(", v.t, ")">>

\* _add_field: the type and the widget content registered for a value.  A
\* list is shown as its items joined by ', '; the text is kept item by item.
entry_of(value) ==
    IF value.t = "bool" THEN [type |-> "bool", widget |-> value.v]
    ELSE IF value.t = "list"
        THEN [type |-> "list", widget |-> [i \in 1..Len(value.v) |-> py_str(value.v[i])]]
    ELSE IF value.t = "num" THEN [type |-> "number", widget |-> value.v]
    ELSE [type |-> "string", widget |-> IF Falsy(value) THEN <<>> ELSE py_str(value)]

\* The value get_updated_config reads from a widget: text.split(',') keeps
\* the items that are not empty.
widget_value(entry) ==
    IF entry.type = "bool" THEN JBool(entry.widget)
    ELSE IF entry.type = "list"
        THEN JList([i \in 1..Len(SelectSeq(entry.widget, LAMBDA item : item # <<>>)) |->
                       JStr(SelectSeq(entry.widget, LAMBDA item : item # <<>>)[i])])
    ELSE IF entry.type = "number" THEN JNum(entry.widget)
    ELSE JStr(entry.widget)

\* f'launch.conditionalFlags.{flag_key}'
conditional_flag_field(flag_key) ==
    <<"launch", ".", "conditionalFlags", ".">> \o flag_key

\* _add_basic_fields
basic_fields(config_data) ==
    << [key |-> K("displayName"),
        val |-> entry_of(dict_get(config_data.v, K("displayName"), JStr(<<>>)))],
       [key |-> K("description"),
        val |-> entry_of(dict_get(config_data.v, K("description"), JStr(<<>>)))],
       [key |-> K("wmClass"),
        val |-> entry_of(dict_get(config_data.v, K("wmClass"), EmptyList))] >>

\* _add_launch_fields
launch_fields(config_data) ==
    LET launch == dict_get(config_data.v, K("launch"), EmptyMap)
        cond_flags == dict_get(launch.v, K("conditionalFlags"), EmptyMap)
        flag_keys == SelectSeq(FlagKeyOrder, LAMBDA k : k \in DOMAIN cond_flags.v)
    IN  IF Falsy(launch) THEN <<>>
        ELSE << [key |-> <<"launch", ".", "executables">>,
                 val |-> entry_of(dict_get(launch.v, K("executables"), EmptyList))],
                [key |-> <<"launch", ".", "flags">>,
                 val |-> entry_of(dict_get(launch.v, K("flags"), EmptyList))] >>
             \o [i \in 1..Len(flag_keys) |->
                    [key |-> conditional_flag_field(flag_keys[i]),
                     val |-> entry_of(cond_flags.v[flag_keys[i]])]]

\* _add_features_fields
FeatureFields == <<"isSingleInstance", "autoRestore", "timeout", "gracePeriod">>

features_fields(config_data) ==
    LET features == dict_get(config_data.v, K("features"), EmptyMap)
        present == SelectSeq(FeatureFields, LAMBDA f : K(f) \in DOMAIN features.v)
    IN  IF Falsy(features) THEN <<>>
        ELSE [i \in 1..Len(present) |->
                 [key |-> <<"features", ".", present[i]>>,
                  val |-> entry_of(features.v[K(present[i])])]]

\* PluginEditDialog._load_config: every failure gives {}.
_load_config(config_file) ==
    IF config_file.k = "json" THEN config_file.v ELSE EmptyMap

\* PluginEditDialog.__init__ on the descriptor of the plugin.
PluginEditDialog__init__(plugin_path, config_file) ==
    LET config_data == _load_config(config_file)
    IN  PluginEditDialog(TRUE, plugin_path, config_data,
                         basic_fields(config_data) \o launch_fields(config_data)
                             \o features_fields(config_data))

\* key.split('.'): the text is cut at every dot, those of a launchFlags. key
\* included.
key_parts(key) == str_split(str_replace(key, LaunchFlagsPrefix, <<"launchFlags", ".">>), ".")

\* The assignment of get_updated_config for one entry: key paths of one, two
\* and three parts are stored, creating the mappings on the way; there is no
\* branch for a longer one.
config_set(config_data, key, value) ==
    IF Len(key_parts(key)) = 1 THEN JMap((key :> value) @@ config_data.v)
    ELSE IF Len(key_parts(key)) \in {2, 3} THEN set_path(config_data, key_parts(key), value).val
    ELSE config_data

\* get_updated_config: the loop over entries.items(), from the i-th on.
RECURSIVE get_updated_config(_, _, _)
get_updated_config(config_data, entries, i) ==
    IF i > Len(entries) THEN config_data
    ELSE get_updated_config(config_set(config_data, entries[i].key, widget_value(entries[i].val)),
                            entries, i + 1)

\* What the user types or sets in a widget of the type.
Edited(type) ==
    IF type = "bool" THEN {TRUE, FALSE}
    ELSE IF type = "list" THEN {<<K("--new")>>}
    ELSE IF type = "number" THEN {7}
    ELSE {K("New")}

\* The descriptor file of a plugin directory.
descriptor_at(d, plugin_path) ==
    root_of(d, plugin_path[1]).entries[plugin_path[2]]

write_descriptor(d, plugin_path, file) ==
    IF plugin_path[1] = EXTENSION_PLUGIN_PATH
    THEN [d EXCEPT !.ext.entries[plugin_path[2]] = file]
    ELSE [d EXCEPT !.user.entries[plugin_path[2]] = file]

\* _on_edit_clicked up to dialog.run(): the dialog of a loaded plugin opens.
OnEditClicked ==
    \E i \in 1..Len(plugins) :
        /\ ~edit_dialog.open
        /\ edit_dialog' = PluginEditDialog__init__(plugins[i].val.plugin_path,
                              descriptor_at(disk, plugins[i].val.plugin_path))
        /\ tab' = Returned(JStr(K("_on_edit_clicked")))
        /\ UNCHANGED <<switch, pending, calls>>
        /\ UNCHANGED <<settingsVars_but_tab, progressVars, windowsVars>>
        /\ UNCHANGED loaderVars
        /\ UNCHANGED handlerVars

\* The user changes the content of one widget of the dialog.
EditField ==
    \E i \in 1..Len(edit_dialog.entries) :
        \E content \in Edited(edit_dialog.entries[i].val.type) :
            /\ edit_dialog.open
            /\ content # edit_dialog.entries[i].val.widget
            /\ edit_dialog' = [edit_dialog EXCEPT !.entries[i].val.widget = content]
            /\ tab' = Returned(JStr(K("(field edited)")))
            /\ UNCHANGED <<switch, pending, calls>>
            /\ UNCHANGED <<settingsVars_but_tab, progressVars, windowsVars>>
            /\ UNCHANGED loaderVars
            /\ UNCHANGED handlerVars

\* The user presses Save: dialog.save(), then the message and the reload, or
\* the error message when the file could not be written.
EditSave ==
    \E written \in BOOLEAN :
        LET config_data == get_updated_config(edit_dialog.config_data, edit_dialog.entries, 1)
            d == write_descriptor(disk, edit_dialog.plugin_path, JsonFile(config_data))
            self == reload(Self, d)
        IN  /\ edit_dialog.open
            /\ edit_dialog' = NoEditDialog
            /\ tab' = Returned(JStr(K("save")))
            /\ Len(dialogs) < MaxDialogs
            /\ IF written
               THEN /\ disk' = d
                    /\ dialogs' = Append(dialogs, Dialog("Saved", "OK"))
                    /\ plugins' = self.plugins
                    /\ loaded' = self.loaded
                    /\ op' = <<"reload">>
                    /\ ret' = self.plugins
                    /\ UNCHANGED printed
               ELSE /\ dialogs' = Append(dialogs, Dialog("Error", "OK"))
                    /\ printed' = print_line(printed, "Error saving config")
                    /\ Len(printed') <= MaxPrinted
                    /\ UNCHANGED loaderVars
            /\ UNCHANGED <<switch, pending, calls>>
            /\ UNCHANGED <<grid, preferences, extension_settings, config_files>>
            /\ UNCHANGED <<progressVars, windowsVars>>
            /\ UNCHANGED handlerVars

\* The user presses Cancel or closes the dialog.
EditCancel ==
    /\ edit_dialog.open
    /\ edit_dialog' = NoEditDialog
    /\ tab' = Returned(JStr(K("(cancelled)")))
    /\ UNCHANGED <<switch, pending, calls>>
    /\ UNCHANGED <<settingsVars_but_tab, progressVars, windowsVars>>
    /\ UNCHANGED loaderVars
    /\ UNCHANGED handlerVars

\* Descriptors with every kind of editable field: conditional flags under a
\* launchFlags. key and under a key without a dot, and no launch section.
EditDescriptors ==
    {JsonFile(JMap(
         Field("name", JStr(<<"x">>))
         @@ Field("displayName", JStr(<<"X">>))
         @@ Field("launch", JMap(
                Field("executables", JList(<<JStr(K("x"))>>))
                @@ Field("conditionalFlags",
                       JMap(<<LaunchFlagsPrefix, "x">> :> JList(<<JStr(K("--x"))>>)))))
         @@ Field("features", JMap(Field("isSingleInstance", JBool(TRUE))
                                   @@ Field("timeout", JNum(5)))))),
     JsonFile(JMap(
         Field("name", JStr(<<"x">>))
         @@ Field("launch", JMap(
                Field("flags", JList(<<JStr(K("--y"))>>))
                @@ Field("conditionalFlags", JMap(<<"x">> :> JList(<<JStr(K("--x"))>>))))))),
     JsonFile(JMap(Field("name", JStr(<<"b">>)) @@ Field("wmClass", JList(<<JStr(K("b"))>>))))}

\* The Apps tab shows the plugins the loader found.
EditInit ==
    /\ \E file \in EditDescriptors :
          /\ disk = [ext |-> Root("dir", <<file>>), user |-> Root("missing", <<>>)]
          /\ plugins = load_all(Loader(<<>>, FALSE), disk).plugins
    /\ loaded = TRUE
    /\ op = <<"load_all">>
    /\ ret = plugins
    /\ HandlersIdle
    /\ UiIdle

EditNext == OnEditClicked \/ EditField \/ EditSave \/ EditCancel

EditSpec == EditInit /\ [][EditNext]_vars

\* The place in the descriptor a field of the dialog was read from.
field_path(key) ==
    IF Len(key) > 4 /\ SubSeq(key, 1, 4) = <<"launch", ".", "conditionalFlags", ".">>
    THEN <<K("launch"), K("conditionalFlags"), SubSeq(key, 5, Len(key))>>
    ELSE str_split(key, ".")

\* A step of Save whose write succeeded.
SavedStep ==
    /\ tab' = Returned(JStr(K("save")))
    /\ dialogs' = Append(dialogs, Dialog("Saved", "OK"))

\* C24: after a Save whose write succeeded, the descriptor file holds the
\* value of every field of the dialog at the key path the field was read
\* from, and the loader has been reloaded from the files.
C24_SaveStoresEveryField ==
    [][SavedStep =>
        /\ \A i \in 1..Len(edit_dialog.entries) :
              LET entry == edit_dialog.entries[i]
                  stored == json_lookup(descriptor_at(disk', edit_dialog.plugin_path).v,
                                        field_path(entry.key))
              IN  stored.found /\ stored.val = widget_value(entry.val)
        /\ plugins' = reload(Self, disk').plugins
    ]_vars

\* The part of C24 that holds: every field but the conditional flags under
\* a key with a dot.
EditSavesPlainFields ==
    [][SavedStep =>
        /\ \A i \in 1..Len(edit_dialog.entries) :
              LET entry == edit_dialog.entries[i]
                  stored == json_lookup(descriptor_at(disk', edit_dialog.plugin_path).v,
                                        field_path(entry.key))
              IN  Len(key_parts(entry.key)) <= 3
                      => stored.found /\ stored.val = widget_value(entry.val)
        /\ plugins' = reload(Self, disk').plugins
    ]_vars

-----------------------------------------------------------------------------
(* app_config.py: the switch of an application's session-restore setting *)

\* Calls of configure_func, check_func and show_message in one run.
MaxCalls == 5

\* A callback registered with GLib.timeout_add(delay, ...).
Timeout(delay) == [delay |-> delay]

\* The callbacks GLib can run next: one is not overtaken by a callback
\* registered later with the same or a longer delay.
Due(callbacks) ==
    {i \in 1..Len(callbacks) :
        \A j \in 1..(i - 1) : callbacks[j].delay > callbacks[i].delay}

seq_remove(q, i) == [j \in 1..(Len(q) - 1) |-> IF j < i THEN q[j] ELSE q[j + 1]]

\* AppConfigurator.handle_switch_toggle(switch, state, configure_func,
\* check_func): the user moved the switch to `state`.
HandleSwitchToggle ==
    \E state \in BOOLEAN, check_func \in BOOLEAN :
        /\ switch' = state
        /\ calls' = Append(calls, IF state THEN "configure_func" ELSE "show_message")
        /\ dialogs' = IF state THEN dialogs
                      ELSE Append(dialogs, Dialog("Manual Action Required", "OK"))
        /\ pending' = IF ~check_func THEN pending
                      ELSE Append(pending, Timeout(IF state THEN 500 ELSE 100))
        /\ Len(calls') + Len(pending') <= MaxCalls
        /\ tab' = Returned(JStr(K("handle_switch_toggle")))
        /\ UNCHANGED edit_dialog
        /\ UNCHANGED <<grid, preferences, extension_settings, config_files, printed>>
        /\ UNCHANGED <<progressVars, windowsVars>>
        /\ UNCHANGED loaderVars
        /\ UNCHANGED handlerVars

\* GLib runs a registered callback: switch.set_active(check_func()).  What
\* check_func finds is the application's own configuration.
TimeoutFires ==
    \E i \in Due(pending), configured \in BOOLEAN :
        /\ pending' = seq_remove(pending, i)
        /\ calls' = Append(calls, "check_func")
        /\ switch' = configured
        /\ tab' = Returned(JStr(K("set_active")))
        /\ UNCHANGED edit_dialog
        /\ UNCHANGED settingsVars_but_tab
        /\ UNCHANGED <<progressVars, windowsVars>>
        /\ UNCHANGED loaderVars
        /\ UNCHANGED handlerVars

SwitchInit ==
    /\ LoaderIdle
    /\ HandlersIdle
    /\ UiIdle

SwitchNext == HandleSwitchToggle \/ TimeoutFires

SwitchSpec == SwitchInit /\ [][SwitchNext]_vars

\* How often a function was called.
Called(q, name) == Cardinality({i \in 1..Len(q) : q[i] = name})

\* C23: every refresh of the displayed state by the check follows a run of
\* the configure function for the user action that asked for it: no check
\* is evaluated without a configure run of its own before it.
C23_ConfigurePrecedesCheck ==
    [][calls' = Append(calls, "check_func")
          => Called(calls', "check_func") <= Called(calls, "configure_func")]_vars

\* The part of C23 that holds: a check never runs before the call that
\* its user action made, be it configure_func or show_message.
CheckFollowsItsAction ==
    [][calls' = Append(calls, "check_func")
          => Called(calls', "check_func")
                 <= Called(calls, "configure_func") + Called(calls, "show_message")]_vars

====
